---- MODULE Spec2Model ----
(***************************************************************************)
(* The `retool scaffold` command (src/src/commands/scaffold.ts), the        *)
(* `-d` and `-e` branches of `retool apps` (src/src/commands/apps.ts) and  *)
(* the app utilities they call (utils/apps.ts, held in                     *)
(* src/unnamed/part_000), as a state machine of one CLI process and the    *)
(* remote Retool account.                                                  *)
(*                                                                         *)
(* One run of the process: Init draws the command line (argv) and the      *)
(* remote account's content; the handler then moves from one `await` to    *)
(* the next: a state is the process suspended at one await (pc), and an    *)
(* action is that await settling followed by the synchronous code up to    *)
(* the next await.  The detached operations (logDAU, insertSampleData)     *)
(* are suspended at awaits of their own and interleave with the handler.   *)
(*                                                                         *)
(* Spec is one run of a command; FairSpec is Spec with every prompt and    *)
(* awaited call of the handler settling.  CredSpec is a session of calls   *)
(* into utils/credentials (askForCookies, deleteCredentials,               *)
(* fetchDBCredentials) on one disk, the commands at rest.                  *)
(***************************************************************************)
EXTENDS Integers, Sequences, FiniteSets, TLC

\* ------------------------------------------------------------------ bounds
MaxCols == 2        \* longest column list given on the command line
MaxApps == 2        \* most apps the account holds before the run
MaxDup == 2         \* most workflows of one name before the run
MaxFiles == 2       \* most CSV files given to --from-csv
MaxNames == 2       \* most app names given to `apps -d`
MaxResources == 2   \* most resources the account lists

\* ------------------------------------------------------------ value spaces
\* JavaScript's undefined, for the string-valued options.
Undefined == "undefined"

TableNames == {"orders", "ghost"}
ColumnNames == {"id", "name"}
CsvFiles == {"orders.csv", "ghost.csv"}

\* All sequences over S of length at most n.
SeqsUpTo(S, n) == UNION {[1..k -> S] : k \in 0..n}

ColLists == SeqsUpTo(ColumnNames, MaxCols)
FileLists == SeqsUpTo(CsvFiles, MaxFiles)

\* Folder ids of the account: the system folders "root" and "archive".
RootFolderId == 1
ArchiveFolderId == 2

\* JavaScript truthiness of a string-valued option.
Truthy(s) == s # Undefined /\ s # ""

\* `${tableName} CRUD Workflow` and `${tableName} App`.
WorkflowNameOf(tableName) == tableName \o " CRUD Workflow"
AppNameOf(tableName) == tableName \o " App"

AppNames == {AppNameOf(t) : t \in TableNames}
NameLists == SeqsUpTo(AppNames, MaxNames)

\* The apps an account may hold before the run: live or trashed apps of the
\* scaffolded name, and a live app of another name.
PageKinds ==
    { [name |-> "orders App", folderId |-> RootFolderId],
      [name |-> "orders App", folderId |-> ArchiveFolderId],
      [name |-> "stock App", folderId |-> RootFolderId] }

\* A page list with the identifiers the server gave: here the position.
WithIds(kinds) ==
    [i \in 1..Len(kinds) |->
        [id |-> i, name |-> kinds[i].name, folderId |-> kinds[i].folderId]]

\* ---------------------------------------------------------------- state
VARIABLES
    cmd,            \* the command run: "scaffold" or "apps"
    argv,           \* the parsed command line
    tables,         \* remote: the names of the Retool DB tables
    workflows,      \* remote: workflow name -> number of workflows so named
    pages,          \* remote: the apps, a sequence of [id, name, folderId]
    rows,           \* remote: the tables that hold generated sample data
    nextId,         \* remote: the identifier the next created app gets
    pc,             \* the await (or prompt) the handler is suspended at
    alive,          \* FALSE once the process has ended
    exitCode,       \* the exit code, when not alive
    exitCause,      \* what ended the process
    tableName,      \* handler local
    colNames,       \* handler local
    idx,            \* the for-loop's position in argv.f / argv.delete
    app,            \* deleteApp local: the apps the lookup matched
    calls,          \* history: the pipeline operations invoked, in order
    requests,       \* history: the remote mutations requested, in order
    out,            \* history: what the user was told, in order
    dau,            \* the detached logDAU
    isd,            \* the detached insertSampleData
    cwd,            \* the working directory: the files exportApp wrote
    fs,             \* the disk: path -> the file's text, if the file exists
    cpc,            \* utils/credentials: the await a call is suspended at
    credentials,    \* fetchDBCredentials local: what getCredentials gave
    retoolDBUuid,   \* fetchDBCredentials local
    inv,            \* history: the call under way or last made, its inputs
    cout,           \* history: what that call told the user
    gets,           \* history: the GET requests that call made
    persists,       \* history: the objects that call gave persistCredentials
    outcome,        \* history: how that call ended
    written         \* history: the last write of the file since its removal

remoteVars == <<tables, workflows, pages, rows, nextId>>
procVars == <<pc, alive, exitCode, exitCause>>
localVars == <<tableName, colNames, idx, app>>
logVars == <<calls, requests, out>>
detachedVars == <<dau, isd>>
commandVars == <<cmd, argv, cwd, remoteVars, procVars, localVars, logVars,
                 detachedVars>>
credVars == <<fs, cpc, credentials, retoolDBUuid, inv, cout, gets, persists,
              outcome, written>>
vars == <<commandVars, credVars>>

\* ------------------------------------------------------------- histories
Ev(kind, op, name, table, col, cols) ==
    [ev |-> kind, op |-> op, name |-> name, table |-> table, col |-> col,
     cols |-> cols]
Call(op, name) == Ev("call", op, name, "", "", <<>>)
Ret(op, name) == Ev("return", op, name, "", "", <<>>)
Launch(op, name) == Ev("launch", op, name, "", "", <<>>)
Fail(op, name) == Ev("fail", op, name, "", "", <<>>)
Prompt(name) == Ev("prompt", "Confirm", name, "", "", <<>>)
Answer(confirm) ==
    Ev("answer", "Confirm", "", "", IF confirm THEN "yes" ELSE "no", <<>>)

Req(kind, name, id) == [kind |-> kind, name |-> name, id |-> id]
Msg(stream, text, name) == [stream |-> stream, msg |-> text, name |-> name]

\* The operations invoked (awaited calls and detached launches), in order.
IsInvocation(e) == e.ev \in {"call", "launch"}
Invoked == SelectSeq(calls, IsInvocation)
InvokedOps == {calls[i].op : i \in {j \in 1..Len(calls) : IsInvocation(calls[j])}}

\* ----------------------------------------------- utils/credentials: values
\* The one path the credentials are kept at.
CREDENTIALS_PATH == ".retool-cli-credentials"
Paths == {CREDENTIALS_PATH}

\* A string is the sequence of its characters.
Digits == {"0", "1", "2", "3", "4", "5", "6", "7", "8", "9"}
HexLower ==
    Digits \cup {"a", "b", "c", "d", "e", "f"}
Lower ==
    {"a", "b", "c", "d", "e", "f", "g", "h", "i", "j", "k", "l", "m",
     "n", "o", "p", "q", "r", "s", "t", "u", "v", "w", "x", "y", "z"}
Upper ==
    {"A", "B", "C", "D", "E", "F", "G", "H", "I", "J", "K", "L", "M",
     "N", "O", "P", "Q", "R", "S", "T", "U", "V", "W", "X", "Y", "Z"}
Alnum == Digits \cup Lower \cup Upper

\* What the user may type at askForCookies' three questions.
\* The example of the question's text: 26725f72-8129-47f7-835a-cba0e5dbcfe6
Xsrf_example ==
    <<"2", "6", "7", "2", "5", "f", "7", "2", "-", "8", "1", "2", "9", "-",
      "4", "7", "f", "7", "-", "8", "3", "5", "a", "-", "c", "b", "a", "0",
      "e", "5", "d", "b", "c", "f", "e", "6">>
\* The same with the version nibble 1.
Xsrf_version1 ==
    <<"2", "6", "7", "2", "5", "f", "7", "2", "-", "8", "1", "2", "9", "-",
      "1", "7", "f", "7", "-", "8", "3", "5", "a", "-", "c", "b", "a", "0",
      "e", "5", "d", "b", "c", "f", "e", "6">>
\* The same with the variant nibble c.
Xsrf_variantC ==
    <<"2", "6", "7", "2", "5", "f", "7", "2", "-", "8", "1", "2", "9", "-",
      "4", "7", "f", "7", "-", "c", "3", "5", "a", "-", "c", "b", "a", "0",
      "e", "5", "d", "b", "c", "f", "e", "6">>
\* Nothing typed.
Xsrf_empty == <<>>
XsrfSamples == {Xsrf_example, Xsrf_version1, Xsrf_variantC, Xsrf_empty}

\* eyJ.e30.s-_
Jwt_three ==
    <<"e", "y", "J", ".", "e", "3", "0", ".", "s", "-", "_">>
\* eyJ.e30
Jwt_two ==
    <<"e", "y", "J", ".", "e", "3", "0">>
\* eyJ..s
Jwt_emptySegment ==
    <<"e", "y", "J", ".", ".", "s">>
\* ey+.e30.s
Jwt_plus ==
    <<"e", "y", "+", ".", "e", "3", "0", ".", "s">>
AccessTokenSamples == {Jwt_three, Jwt_two, Jwt_emptySegment, Jwt_plus}

\* my-org.retool.com
Domain_org ==
    <<"m", "y", "-", "o", "r", "g", ".", "r", "e", "t", "o", "o", "l", ".",
      "c", "o", "m">>
\* localhost
Domain_local ==
    <<"l", "o", "c", "a", "l", "h", "o", "s", "t">>
\* https://a.co
Domain_scheme ==
    <<"h", "t", "t", "p", "s", ":", "/", "/", "a", ".", "c", "o">>
\* -a.co
Domain_hyphen ==
    <<"-", "a", ".", "c", "o">>
\* a..co
Domain_emptyLabel ==
    <<"a", ".", ".", "c", "o">>
DomainSamples ==
    {Domain_org, Domain_local, Domain_scheme, Domain_hyphen, Domain_emptyLabel}

\* inquirer's answer: an object of the three questions' names.
Answers ==
    [domain : DomainSamples, xsrf : XsrfSamples, accessToken : AccessTokenSamples]

\* The optional properties of Credentials that the login sometimes fetches.
Profile == [firstName |-> "Ada", lastName |-> "Lovelace", email |-> "ada@retool.com"]

\* The resources an account may list, as [displayName, name]: the name is
\* the resource's identifier.
ResourceKinds ==
    { [displayName |-> "retool_db", name |-> "uuid-1"],
      [displayName |-> "retool_db", name |-> "uuid-2"],
      [displayName |-> "other", name |-> "uuid-3"] }

\* What GET /api/resources may answer: an error, a body without the list,
\* or a list.
ResourcesResponses ==
    { [status |-> "error", hasList |-> FALSE, resources |-> <<>>],
      [status |-> "ok", hasList |-> FALSE, resources |-> <<>>] }
    \cup { [status |-> "ok", hasList |-> TRUE, resources |-> l] :
              l \in SeqsUpTo(ResourceKinds, MaxResources) }

\* What GET /api/grid/retooldb/<uuid>?env=production may answer: an error,
\* a body without gridInfo, or gridInfo with or without a connection string.
GridResponses ==
    { [status |-> "error", hasGridInfo |-> FALSE, id |-> Undefined,
       connectionString |-> Undefined],
      [status |-> "ok", hasGridInfo |-> FALSE, id |-> Undefined,
       connectionString |-> Undefined] }
    \cup { [status |-> "ok", hasGridInfo |-> TRUE, id |-> "grid-1",
            connectionString |-> cs] :
              cs \in {Undefined, "", "postgresql://retool"} }

\* ------------------------------------------- utils/credentials: the disk
\* The disk maps a path to <<text>> when the file exists, to <<>> when not.
NoFile == [path \in Paths |-> <<>>]
existsSync(d, path) == d[path] # <<>>
readFileSync(d, path) == d[path][1]
writeFileSync(d, path, text) == [d EXCEPT ![path] = <<text>>]
unlinkSync(d, path) == [d EXCEPT ![path] = <<>>]

\* JSON.stringify leaves out the properties whose value is undefined; of the
\* properties of Credentials only gridId is ever given undefined.  A text
\* is held as the object it denotes, which JSON.parse gives back.
JSON_stringify(obj) ==
    LET IsWritten(k) == (k = "gridId") => obj[k] # Undefined
    IN  [k \in {j \in DOMAIN obj : IsWritten(j)} |-> obj[k]]
JSON_parse(text) == text

\* persistCredentials(c), when the write succeeds.
persistCredentials_merge(d, c) ==
    IF existsSync(d, CREDENTIALS_PATH)
    THEN LET old == JSON_parse(readFileSync(d, CREDENTIALS_PATH))
             new == JSON_stringify(c)
         IN  writeFileSync(d, CREDENTIALS_PATH,
                 [k \in DOMAIN old \cup DOMAIN new |->
                     IF k \in DOMAIN new THEN new[k] ELSE old[k]])
    ELSE writeFileSync(d, CREDENTIALS_PATH, JSON_stringify(c))

persistCredentials(d, c) == writeFileSync(d, CREDENTIALS_PATH, JSON_stringify(c))

\* getCredentials(): <<>> for undefined, else <<the object>>.
getCredentials_default(d) ==
    IF ~existsSync(d, CREDENTIALS_PATH)
    THEN <<[domain |-> Domain_local, xsrf |-> Xsrf_example, accessToken |-> Jwt_three]>>
    ELSE <<JSON_parse(readFileSync(d, CREDENTIALS_PATH))>>

getCredentials(d) ==
    IF ~existsSync(d, CREDENTIALS_PATH)
    THEN <<>>
    ELSE <<JSON_parse(readFileSync(d, CREDENTIALS_PATH))>>

doCredentialsExist(d) == existsSync(d, CREDENTIALS_PATH)

\* ------------------------------------ utils/credentials: validateCookies
\* /^[0-9a-f]{8}-[0-9a-f]{4}-4[0-9a-f]{3}-[89ab][0-9a-f]{3}-[0-9a-f]{12}$/
uuidRegEx(str) ==
    /\ Len(str) = 36
    /\ \A i \in 1..Len(str) :
          IF i \in {9, 14, 19, 24} THEN str[i] = "-"
          ELSE IF i = 15 THEN str[i] = "4"
          ELSE IF i = 20 THEN str[i] \in {"8", "9", "a", "b"}
          ELSE str[i] \in HexLower

\* /^[\w-]+\.[\w-]+\.[\w-]+$/ : two dots, around them three runs, none
\* empty, of letters, digits, "_" and "-".
jwtRegEx(str) ==
    LET dots == {i \in 1..Len(str) : str[i] = "."}
    IN  /\ Cardinality(dots) = 2
        /\ \A i \in 1..Len(str) : str[i] \in Alnum \cup {"_", "-", "."}
        /\ \A i \in dots : i > 1 /\ i < Len(str) /\ (i + 1) \notin dots

\* /^((label)\.)*(label)$/ with label = [a-zA-Z0-9] or
\* [a-zA-Z0-9][a-zA-Z0-9\-]*[a-zA-Z0-9]: labels between dots, each label
\* beginning and ending with a letter or digit.
hostnameRegEx(str) ==
    /\ Len(str) > 0
    /\ \A i \in 1..Len(str) : str[i] \in Alnum \cup {"-", "."}
    /\ str[1] \in Alnum /\ str[Len(str)] \in Alnum
    /\ \A i \in 1..Len(str) :
          str[i] = "." => (str[i - 1] \in Alnum /\ str[i + 1] \in Alnum)

XsrfError == Msg("stdout", "Error: XSRF token is invalid.", "")
AccessTokenError == Msg("stdout", "Error: Access token is invalid.", "")
DomainError == Msg("stdout", "Error: Domain is invalid.", "")

\* validateCookies(c): what it logs before process.exit(1), <<>> when it
\* returns.
validateCookies_domainFirst(c) ==
    IF ~hostnameRegEx(c.domain) THEN <<DomainError>>
    ELSE IF ~uuidRegEx(c.xsrf) THEN <<XsrfError>>
    ELSE IF ~jwtRegEx(c.accessToken) THEN <<AccessTokenError>>
    ELSE <<>>

validateCookies(c) ==
    IF ~uuidRegEx(c.xsrf) THEN <<XsrfError>>
    ELSE IF ~jwtRegEx(c.accessToken) THEN <<AccessTokenError>>
    ELSE IF ~hostnameRegEx(c.domain) THEN <<DomainError>>
    ELSE <<>>

\* ------------------------------------------ utils/credentials: at start
\* The call under way, or the last one made: its name, the disk it found,
\* and what it was given since (each <<>> until given).
CredCall(op, d) ==
    [op |-> op, before |-> d, answer |-> <<>>, resources |-> <<>>, grid |-> <<>>]

\* The records a login leaves on the disk: the three answers, validated,
\* and sometimes the user's profile.
LoginRecords ==
    LET valid == {a \in Answers : validateCookies(a) = <<>>}
    IN  valid \cup
        { [k \in DOMAIN a \cup DOMAIN Profile |->
              IF k \in DOMAIN a THEN a[k] ELSE Profile[k]] : a \in valid }

\* The commands of src/commands do not touch the credentials' file.
CredentialsUntouched ==
    /\ fs = NoFile
    /\ cpc = "idle"
    /\ credentials = <<>>
    /\ retoolDBUuid = Undefined
    /\ inv = CredCall("none", NoFile)
    /\ cout = <<>>
    /\ gets = <<>>
    /\ persists = <<>>
    /\ outcome = "none"
    /\ written = <<>>

\* ------------------------------------------------------------------ Init
WorkflowNames == {WorkflowNameOf(t) : t \in TableNames}

NoArgv ==
    [delete |-> Undefined, deleteGiven |-> FALSE, deleteNames |-> <<>>,
     exportGiven |-> FALSE, exportNames |-> <<>>, fGiven |-> FALSE, f |-> <<>>,
     name |-> Undefined, columns |-> <<>>, noWorkflow |-> FALSE,
     force |-> FALSE]

\* `retool scaffold -d <name> [--force]`, alone or with every other option.
DeleteArgvs ==
    { [a EXCEPT !.delete = d, !.force = fo] :
        d \in TableNames, fo \in BOOLEAN,
        a \in {NoArgv,
               [NoArgv EXCEPT !.fGiven = TRUE, !.f = <<"orders.csv">>,
                              !.name = "orders", !.columns = <<"id", "name">>]} }

\* `retool scaffold -f <csv>... [-n <name>] [--no-workflow]`.
CsvArgvs ==
    { [NoArgv EXCEPT !.fGiven = TRUE, !.f = csvFileNames, !.name = n,
               !.noWorkflow = nw] :
        csvFileNames \in FileLists, n \in {Undefined, "orders"}, nw \in BOOLEAN }

\* `retool scaffold [-n <name>] [-c <col>...] [--no-workflow]`.
CreateArgvs ==
    { [NoArgv EXCEPT !.name = n, !.columns = c, !.noWorkflow = nw] :
        n \in TableNames \cup {Undefined}, c \in ColLists, nw \in BOOLEAN }

\* `retool apps -d <app-name>... [--force]`.
AppsArgvs ==
    { [NoArgv EXCEPT !.deleteGiven = TRUE, !.deleteNames = ns, !.force = fo] :
        ns \in NameLists, fo \in BOOLEAN }

\* `retool apps -e <app-name>...`, alone or after `-d <app-name>`.
ExportArgvs ==
    { [NoArgv EXCEPT !.exportGiven = TRUE, !.exportNames = ns] :
        ns \in NameLists }
    \cup { [NoArgv EXCEPT !.exportGiven = TRUE, !.exportNames = <<"orders App">>,
                          !.deleteGiven = TRUE, !.deleteNames = <<"orders App">>,
                          !.force = TRUE] }

\* What the account holds before the run.  Only a delete looks at the
\* workflows and apps that exist, so the other runs start from an account
\* without any.
InitRemote ==
    /\ tables \in SUBSET {"orders"}
    /\ rows = {}
    /\ \E k \in 0..MaxDup :
          /\ (cmd = "scaffold" /\ Truthy(argv.delete)) \/ k = 0
          /\ workflows =
                [w \in WorkflowNames |->
                    IF w = WorkflowNameOf("orders") THEN k ELSE 0]
    /\ \E kinds \in SeqsUpTo(PageKinds, MaxApps) :
          /\ (cmd = "scaffold" /\ Truthy(argv.delete)) \/ cmd = "apps"
                \/ kinds = <<>>
          /\ (cmd = "apps") => tables = {}
          /\ pages = WithIds(kinds)
          /\ nextId = Len(kinds) + 1

Init ==
    /\ \/ cmd = "scaffold" /\ argv \in DeleteArgvs \cup CsvArgvs \cup CreateArgvs
       \/ cmd = "apps" /\ argv \in AppsArgvs \cup ExportArgvs
    /\ InitRemote
    /\ cwd = {}
    /\ pc = "getCredentials"
    /\ alive = TRUE
    /\ exitCode = 0
    /\ exitCause = ""
    /\ tableName = Undefined
    /\ colNames = <<>>
    /\ idx = 0
    /\ app = <<>>
    /\ calls = <<>>
    /\ requests = <<>>
    /\ out = <<>>
    /\ dau = "none"
    /\ isd = "none"
    /\ CredentialsUntouched

\* -------------------------------------------------------------- process
\* process.exit(code): the process ends where it is; nothing runs after.
Exit(code, cause) ==
    /\ alive' = FALSE
    /\ exitCode' = code
    /\ exitCause' = cause
    /\ pc' = pc

Continue(next) ==
    /\ pc' = next
    /\ UNCHANGED <<alive, exitCode, exitCause>>

\* A remote call that fails (a RemoteError, a NotFoundError) inside an
\* awaited function rejects the handler's promise: the command fails.
Reject(step) == Exit(1, step)

\* The handler's `await op(...)`: when the operation is fulfilled the
\* handler runs on (evs: the events of its synchronous code up to the next
\* await, next); the handler catches nothing, so a rejected operation ends
\* the run.
handler_await_swallow(ok, op, name, next, evs) ==
    /\ Continue(next)
    /\ calls' = calls \o <<IF ok THEN Ret(op, name) ELSE Fail(op, name)>> \o evs

handler_await(ok, op, name, next, evs) ==
    IF ok
    THEN /\ Continue(next)
         /\ calls' = calls \o <<Ret(op, name)>> \o evs
    ELSE /\ Reject(op)
         /\ calls' = Append(calls, Fail(op, name))

\* ------------------------------------------------------------ utils/apps
Folders ==
    << [id |-> RootFolderId, name |-> "root", systemFolder |-> TRUE],
       [id |-> ArchiveFolderId, name |-> "archive", systemFolder |-> TRUE] >>

\* folders?.find(name === "archive" && systemFolder === true)?.id, 0 standing
\* for undefined (no page has folder 0).
trashFolderId(folders) ==
    LET IsTrash(fo) == fo.name = "archive" /\ fo.systemFolder = TRUE
        found == SelectSeq(folders, IsTrash)
    IN  IF found = <<>> THEN 0 ELSE found[1].id

\* The apps getAppsAndFolders returns for a response holding pgs and folders.
getAppsAndFolders_withTrash(pgs, folders) == pgs

getAppsAndFolders(pgs, folders) ==
    LET NotTrashed(a) == a.folderId # trashFolderId(folders)
    IN  SelectSeq(pgs, NotTrashed)

\* deleteApp's lookup: apps?.filter(app => app.name === appName).
appsNamed(listed, name) ==
    LET Named(a) == a.name = name
    IN  SelectSeq(listed, Named)

\* The arguments of deleteApp at its two call sites.
deleteApp_appName(i) ==
    IF cmd = "scaffold" THEN AppNameOf(tableName) ELSE argv.deleteNames[i]
deleteApp_confirmDeletion ==
    IF cmd = "scaffold" THEN FALSE ELSE ~argv.force

\* Where deleteApp first suspends: at its prompt, or at the lookup's GET.
deleteApp_entry ==
    IF deleteApp_confirmDeletion THEN "deleteApp.confirm" ELSE "deleteApp.fetch"

\* The events of entering deleteApp for the i-th name: the call and, when
\* it confirms, its prompt.
deleteApp_entryEvs(name) ==
    <<Call("DeleteApp", name)>>
        \o (IF deleteApp_confirmDeletion THEN <<Prompt(name)>> ELSE <<>>)

\* if (!confirm) process.exit(0)
deleteApp_declined_never(confirm) == FALSE

deleteApp_declined(confirm) == ~confirm

\* deleteApp, when its confirmation prompt is answered.
deleteApp_confirm ==
    /\ alive /\ pc = "deleteApp.confirm"
    /\ \E confirm \in BOOLEAN :
         /\ IF deleteApp_declined(confirm) THEN Exit(0, "declined")
            ELSE Continue("deleteApp.fetch")
         /\ calls' = Append(calls, Answer(confirm))
    /\ UNCHANGED <<credVars, cwd, cmd, argv, remoteVars, localVars, requests, out, detachedVars>>

\* The lookup's failure message; it is the same for every count but one.
deleteApp_lookupError_counted(name, count) ==
    Msg("stderr", IF count = 0 THEN "No app named $1 found."
                  ELSE "Several apps named $1 found.", name)

deleteApp_lookupError(name, count) ==
    Msg("stderr", "0 or >1 Apps named $1 found.", name)

\* app?.length != 1, for a response that held a page list or held none.
deleteApp_lookupFails_onlyZero(hasPages, matches) == ~hasPages \/ Len(matches) = 0

deleteApp_lookupFails(hasPages, matches) == ~hasPages \/ Len(matches) # 1

\* deleteApp, when getAppsAndFolders settles: the lookup, then the request
\* to delete the one app found.
deleteApp_fetch ==
    /\ alive /\ pc = "deleteApp.fetch"
    /\ \E resp \in {"ok", "nodata", "error"} :
         LET name == deleteApp_appName(idx)
             matches == IF resp = "ok"
                        THEN appsNamed(getAppsAndFolders(pages, Folders), name)
                        ELSE <<>>
         IN  IF resp = "error"
             THEN /\ Reject("DeleteApp")
                  /\ calls' = Append(calls, Fail("DeleteApp", name))
                  /\ UNCHANGED <<app, requests, out>>
             ELSE IF deleteApp_lookupFails(resp = "ok", matches)
             THEN /\ Exit(1, "DeleteApp")
                  /\ calls' = Append(calls, Fail("DeleteApp", name))
                  /\ app' = matches
                  /\ out' = Append(out, deleteApp_lookupError(name, Len(matches)))
                  /\ UNCHANGED requests
             ELSE /\ Continue("deleteApp.post")
                  /\ app' = matches
                  /\ requests' = Append(requests, Req("deletePage", name, matches[1].id))
                  /\ UNCHANGED <<out, calls>>
    /\ UNCHANGED <<credVars, cwd, cmd, argv, remoteVars, tableName, colNames, idx, detachedVars>>

\* The handler's code after deleteApp returns: the end of scaffold's
\* handler, or the next round of the loop of `apps -d`.
handler_afterDeleteApp ==
    IF cmd = "apps" /\ idx < Len(argv.deleteNames)
    THEN [next |-> deleteApp_entry, idx |-> idx + 1,
          evs |-> deleteApp_entryEvs(argv.deleteNames[idx + 1])]
    ELSE [next |-> "returned", idx |-> idx, evs |-> <<>>]

\* deleteApp, when the delete request settles.
deleteApp_post ==
    /\ alive /\ pc = "deleteApp.post"
    /\ \E ok \in BOOLEAN :
         LET name == deleteApp_appName(idx)
             Kept(a) == a.id # app[1].id
             after == handler_afterDeleteApp
         IN  /\ pages' = IF ok THEN SelectSeq(pages, Kept) ELSE pages
             /\ out' = IF ok THEN Append(out, Msg("stdout", "Deleted $1 app.", name))
                             ELSE out
             /\ idx' = IF ok THEN after.idx ELSE idx
             /\ handler_await(ok, "DeleteApp", name, after.next, after.evs)
    /\ UNCHANGED <<credVars, cwd, cmd, argv, tables, workflows, rows, nextId, tableName,
                   colNames, app, requests, detachedVars>>

\* exportApp's argument in the loop of `apps -e`.
exportApp_appName(i) == argv.exportNames[i]

\* `${appName}.json`, and the file exportApp writes: the export of one app
\* (an app's uuid is held as its id).
exportApp_filePath(name) == name \o ".json"
ExportFile(name, id) == [file |-> exportApp_filePath(name), id |-> id]

\* exportApp, when getAppsAndFolders settles: the lookup, then the request
\* for the export of the one app found.
exportApp_fetch ==
    /\ alive /\ pc = "exportApp.fetch"
    /\ \E resp \in {"ok", "nodata", "error"} :
         LET name == exportApp_appName(idx)
             matches == IF resp = "ok"
                        THEN appsNamed(getAppsAndFolders(pages, Folders), name)
                        ELSE <<>>
         IN  IF resp = "error"
             THEN /\ Reject("ExportApp")
                  /\ calls' = Append(calls, Fail("ExportApp", name))
                  /\ UNCHANGED <<app, requests, out>>
             ELSE IF deleteApp_lookupFails(resp = "ok", matches)
             THEN /\ Exit(1, "ExportApp")
                  /\ calls' = Append(calls, Fail("ExportApp", name))
                  /\ app' = matches
                  /\ out' = Append(out,
                        Msg("stdout", "0 or >1 Apps named $1 found.", name))
                  /\ UNCHANGED requests
             ELSE /\ Continue("exportApp.post")
                  /\ app' = matches
                  /\ requests' = Append(requests, Req("export", name, matches[1].id))
                  /\ UNCHANGED <<out, calls>>
    /\ UNCHANGED <<credVars, cwd, cmd, argv, remoteVars, tableName, colNames, idx, detachedVars>>

\* The handler's code after exportApp returns: the next round of the loop
\* of `apps -e`, or the handler's end.
handler_afterExportApp ==
    IF idx < Len(argv.exportNames)
    THEN [next |-> "exportApp.fetch", idx |-> idx + 1,
          evs |-> <<Call("ExportApp", argv.exportNames[idx + 1])>>]
    ELSE [next |-> "returned", idx |-> idx, evs |-> <<>>]

\* exportApp, when the export request settles: the response is piped into
\* the file; an exception while setting that up is caught and ends the run.
exportApp_post ==
    /\ alive /\ pc = "exportApp.post"
    /\ \E ok \in BOOLEAN, thrown \in BOOLEAN :
         LET name == exportApp_appName(idx)
             after == handler_afterExportApp
         IN  IF ok /\ thrown
             THEN /\ Exit(1, "ExportApp")
                  /\ calls' = Append(calls, Fail("ExportApp", name))
                  /\ out' = Append(out, Msg("stderr", "Error exporting app.", ""))
                  /\ UNCHANGED <<cwd, idx>>
             ELSE /\ cwd' = IF ok THEN cwd \cup {ExportFile(name, app[1].id)}
                                  ELSE cwd
                  /\ out' = IF ok THEN Append(out, Msg("stdout", "Exported $1 app.", name))
                                  ELSE out
                  /\ idx' = IF ok THEN after.idx ELSE idx
                  /\ handler_await(ok, "ExportApp", name, after.next, after.evs)
    /\ UNCHANGED <<credVars, cmd, argv, remoteVars, tableName, colNames, app,
                   requests, detachedVars>>

\* --------------------------------------------- commands/scaffold: delete
\* The branch the handler takes: argv.delete, else argv.f, else plain create.
handler_mode_csvFirst ==
    IF argv.fGiven THEN "csv"
    ELSE IF Truthy(argv.delete) THEN "delete"
    ELSE "create"

handler_mode ==
    IF Truthy(argv.delete) THEN "delete"
    ELSE IF argv.fGiven THEN "csv"
    ELSE "create"

\* `await getAndVerifyCredentialsWithRetoolDB()` fails: no usable credentials.
handler_noCredentials ==
    /\ alive /\ pc = "getCredentials"
    /\ Reject("getCredentials")
    /\ calls' = Append(calls, Fail("getCredentials", ""))
    /\ UNCHANGED <<credVars, cwd, cmd, argv, remoteVars, localVars, requests, out, detachedVars>>

\* Whether the delete branch asks for confirmation: it always does, the
\* command has no --force option.
handler_asksConfirmation == TRUE

\* The delete branch, from the credentials to the confirmation prompt.
handler_delete ==
    /\ alive /\ pc = "getCredentials"
    /\ cmd = "scaffold" /\ handler_mode = "delete"
    /\ dau' = "pending"
    /\ tableName' = argv.delete
    /\ IF handler_asksConfirmation
       THEN /\ Continue("confirm")
            /\ calls' = calls \o <<Launch("logDAU", ""), Prompt(argv.delete)>>
       ELSE /\ Continue("deleteTable")
            /\ calls' = calls \o <<Launch("logDAU", ""),
                                    Call("DeleteTable", argv.delete)>>
    /\ UNCHANGED <<credVars, cwd, cmd, argv, remoteVars, colNames, idx, app, requests, out, isd>>

\* if (!confirm) process.exit(0)
handler_declined_never(confirm) == FALSE

handler_declined(confirm) == ~confirm

\* The three deletes, in the handler's order.
handler_deleteSteps == <<"deleteTable", "deleteWorkflow", "deleteApp">>

\* The await entered for the k-th delete, and the event of its call.
handler_deleteEntry(k) ==
    LET step == handler_deleteSteps[k]
    IN  IF step = "deleteTable"
        THEN [pc |-> step, evs |-> <<Call("DeleteTable", tableName)>>]
        ELSE IF step = "deleteWorkflow"
        THEN [pc |-> step, evs |-> <<Call("DeleteWorkflow", WorkflowNameOf(tableName))>>]
        ELSE [pc |-> deleteApp_entry, evs |-> deleteApp_entryEvs(AppNameOf(tableName))]

\* The position of a step among the three deletes.
handler_deleteIndex(step) ==
    CHOOSE k \in 1..Len(handler_deleteSteps) : handler_deleteSteps[k] = step

\* What follows the k-th delete: the next one, or the handler's end.
handler_afterDelete_again(step) == handler_deleteEntry(1)

handler_afterDelete(step) ==
    LET k == handler_deleteIndex(step)
    IN  IF k < Len(handler_deleteSteps)
        THEN handler_deleteEntry(k + 1)
        ELSE [pc |-> "returned", evs |-> <<>>]

\* The confirmation prompt is answered.
handler_confirm ==
    /\ alive /\ pc = "confirm"
    /\ \E confirm \in BOOLEAN :
         IF handler_declined(confirm)
         THEN /\ Exit(0, "declined")
              /\ calls' = Append(calls, Answer(confirm))
         ELSE /\ Continue(handler_deleteEntry(1).pc)
              /\ calls' = calls \o <<Answer(confirm)>> \o handler_deleteEntry(1).evs
    /\ UNCHANGED <<credVars, cwd, cmd, argv, remoteVars, localVars, requests, out, detachedVars>>

\* deleteTable(tableName, credentials, false) settles: the table is looked
\* up by name; a single match is deleted by a remote request.
deleteTable ==
    /\ alive /\ pc = "deleteTable"
    /\ \E resp \in BOOLEAN :
         LET found == tableName \in tables
             ok == found /\ resp
             after == handler_afterDelete("deleteTable")
         IN  /\ requests' = IF found
                            THEN Append(requests, Req("DeleteTable", tableName, 0))
                            ELSE requests
             /\ tables' = IF ok THEN tables \ {tableName} ELSE tables
             /\ out' = IF ok
                       THEN Append(out, Msg("stdout", "Deleted $1 table.", tableName))
                       ELSE out
             /\ handler_await(ok, "DeleteTable", tableName, after.pc, after.evs)
    /\ UNCHANGED <<credVars, cwd, cmd, argv, workflows, pages, rows, nextId, localVars, detachedVars>>

\* deleteWorkflow(workflowName, credentials, false) settles, likewise.
deleteWorkflow ==
    /\ alive /\ pc = "deleteWorkflow"
    /\ \E resp \in BOOLEAN :
         LET name == WorkflowNameOf(tableName)
             found == workflows[name] = 1
             ok == found /\ resp
             after == handler_afterDelete("deleteWorkflow")
         IN  /\ requests' = IF found
                            THEN Append(requests, Req("DeleteWorkflow", name, 0))
                            ELSE requests
             /\ workflows' = IF ok THEN [workflows EXCEPT ![name] = 0] ELSE workflows
             /\ out' = IF ok
                       THEN Append(out, Msg("stdout", "Deleted $1.", name))
                       ELSE out
             /\ handler_await(ok, "DeleteWorkflow", name, after.pc, after.evs)
    /\ UNCHANGED <<credVars, cwd, cmd, argv, tables, pages, rows, nextId, localVars, detachedVars>>

\* ------------------------------------- commands/apps: create-from-table
\* tableInfo.fields.find(field => field.name !== primaryKeyColumn)?.name
\*     || tableInfo.primaryKeyColumn
firstNonPkey(fields, primaryKeyColumn) ==
    LET NotPkey(f) == f # primaryKeyColumn
        found == SelectSeq(fields, NotPkey)
    IN  IF found = <<>> THEN primaryKeyColumn ELSE found[1]

\* --------------------------------------------- commands/scaffold: create
\* const searchColumnName = colNames.length > 0 ? colNames[0] : "id"
searchColumnName(cn) == IF Len(cn) > 0 THEN cn[1] ELSE "id"

\* The table a CSV file makes: named after the file.
csvTableName(file) == IF file = "orders.csv" THEN "orders" ELSE "ghost"

CreateTableEv(tn, cn) == Ev("call", "CreateTable", tn, tn, "", cn)
CreateWorkflowEv(tn) == Ev("call", "CreateWorkflow", WorkflowNameOf(tn), tn, "", <<>>)
\* cols: the column list the search column was taken from.
CreateAppEv(tn, cn) ==
    Ev("call", "CreateApp", AppNameOf(tn), tn, searchColumnName(cn), cn)

\* if (!argv["no-workflow"]) await generateCRUDWorkflow(...)
handler_withWorkflow_always == TRUE

handler_withWorkflow_inverted == argv.noWorkflow

handler_withWorkflow == ~argv.noWorkflow

\* The handler's code after the table tn with columns cn is made, up to its
\* next await: the workflow unless --no-workflow, else the app.
handler_afterTable(tn, cn) ==
    IF handler_withWorkflow
    THEN [pc |-> "generateCRUDWorkflow", evs |-> <<CreateWorkflowEv(tn)>>]
    ELSE [pc |-> "createAppForTable", evs |-> <<CreateAppEv(tn, cn)>>]

\* The plain-create branch from its inputs on: the awaits still to come
\* before createTable, then createTable.
handler_createEntry(tn, cn) ==
    IF ~Truthy(tn) THEN [pc |-> "collectTableName", evs |-> <<>>]
    ELSE IF Len(cn) = 0 THEN [pc |-> "collectColumnNames", evs |-> <<>>]
    ELSE [pc |-> "createTable", evs |-> <<CreateTableEv(tn, cn)>>]

\* The plain-create branch, from the credentials to its first await.
handler_create ==
    /\ alive /\ pc = "getCredentials"
    /\ cmd = "scaffold" /\ handler_mode = "create"
    /\ dau' = "pending"
    /\ tableName' = argv.name
    /\ colNames' = argv.columns
    /\ Continue(handler_createEntry(argv.name, argv.columns).pc)
    /\ calls' = calls \o <<Launch("logDAU", "")>>
                      \o handler_createEntry(argv.name, argv.columns).evs
    /\ UNCHANGED <<credVars, cwd, cmd, argv, remoteVars, idx, app, requests, out, isd>>

\* tableName = await collectTableName(): the user types a name.
collectTableName ==
    /\ alive /\ pc = "collectTableName"
    /\ \E tn \in TableNames :
         /\ tableName' = tn
         /\ Continue(handler_createEntry(tn, colNames).pc)
         /\ calls' = calls \o handler_createEntry(tn, colNames).evs
    /\ UNCHANGED <<credVars, cwd, cmd, argv, remoteVars, colNames, idx, app, requests, out, detachedVars>>

\* colNames = await collectColumnNames(): the user types the columns.
collectColumnNames ==
    /\ alive /\ pc = "collectColumnNames"
    /\ \E cn \in ColLists :
         /\ colNames' = cn
         /\ Continue("createTable")
         /\ calls' = Append(calls, CreateTableEv(tableName, cn))
    /\ UNCHANGED <<credVars, cwd, cmd, argv, remoteVars, tableName, idx, app, requests, out, detachedVars>>

\* await createTable(tableName, colNames, undefined, credentials, false)
\* settles; then insertSampleData is started and left to itself.
createTable ==
    /\ alive /\ pc = "createTable"
    /\ \E resp \in BOOLEAN :
         LET ok == tableName \notin tables /\ resp
             after == handler_afterTable(tableName, colNames)
         IN  /\ requests' = Append(requests, Req("CreateTable", tableName, 0))
             /\ tables' = IF ok THEN tables \cup {tableName} ELSE tables
             /\ out' = IF ok
                       THEN Append(out, Msg("stdout", "Created $1 table.", tableName))
                       ELSE out
             /\ isd' = IF ok THEN "info" ELSE isd
             /\ handler_await(ok, "CreateTable", tableName, after.pc,
                              <<Launch("InsertSampleData", tableName)>> \o after.evs)
    /\ UNCHANGED <<credVars, cwd, cmd, argv, workflows, pages, rows, nextId, localVars, dau>>

\* await generateCRUDWorkflow(tableName, credentials) settles.
generateCRUDWorkflow ==
    /\ alive /\ pc = "generateCRUDWorkflow"
    /\ \E ok \in BOOLEAN :
         LET name == WorkflowNameOf(tableName)
         IN  /\ requests' = Append(requests, Req("CreateWorkflow", name, 0))
             /\ workflows' = IF ok THEN [workflows EXCEPT ![name] = @ + 1]
                             ELSE workflows
             /\ out' = IF ok
                       THEN Append(out, Msg("stdout", "Created $1.", name))
                       ELSE out
             /\ handler_await(ok, "CreateWorkflow", name, "createAppForTable",
                              <<CreateAppEv(tableName, colNames)>>)
    /\ UNCHANGED <<credVars, cwd, cmd, argv, tables, pages, rows, nextId, localVars, detachedVars>>

\* The handler's code after createAppForTable returns: the next file of
\* --from-csv, or the handler's end.
handler_afterCreateApp_firstFileOnly ==
    [pc |-> "returned", idx |-> idx, evs |-> <<>>]

handler_afterCreateApp ==
    IF handler_mode = "csv" /\ idx < Len(argv.f)
    THEN [pc |-> "createTableFromCSV", idx |-> idx + 1,
          evs |-> <<Call("CreateTableFromCSV", argv.f[idx + 1])>>]
    ELSE [pc |-> "returned", idx |-> idx, evs |-> <<>>]

\* if (!pageUuid): the response holds no pageUuid.
createAppForTable_noPageUuid_never(resp) == FALSE

createAppForTable_noPageUuid(resp) == resp = "noPageUuid"

\* createAppForTable, when the autogeneratePage request settles: an error,
\* a response without pageUuid, or the new page.  Past the test of
\* pageUuid the success is reported.
createAppForTable ==
    /\ alive /\ pc = "createAppForTable"
    /\ \E resp \in {"ok", "noPageUuid", "error"} :
         LET name == AppNameOf(tableName)
             after == handler_afterCreateApp
             settled == resp # "error"
         IN  /\ requests' = Append(requests, Req("autogeneratePage", name, 0))
             /\ IF settled /\ createAppForTable_noPageUuid(resp)
                THEN /\ Exit(1, "CreateApp")
                     /\ calls' = Append(calls, Fail("CreateApp", name))
                     /\ out' = Append(out, Msg("stderr", "Error creating app.", name))
                     /\ UNCHANGED <<pages, nextId, idx>>
                ELSE /\ pages' = IF resp = "ok"
                                 THEN Append(pages, [id |-> nextId, name |-> name,
                                                     folderId |-> RootFolderId])
                                 ELSE pages
                     /\ nextId' = IF resp = "ok" THEN nextId + 1 ELSE nextId
                     /\ out' = IF settled
                               THEN Append(out, Msg("stdout",
                                                    "Successfully created an App.", name))
                               ELSE out
                     /\ idx' = IF settled THEN after.idx ELSE idx
                     /\ handler_await(settled, "CreateApp", name, after.pc,
                                      after.evs)
    /\ UNCHANGED <<credVars, cwd, cmd, argv, tables, workflows, rows, tableName, colNames, app,
                   detachedVars>>

\* ------------------------------------------- commands/scaffold: from-csv
\* The from-csv branch, from the credentials into the loop over the files.
handler_fromCsv ==
    /\ alive /\ pc = "getCredentials"
    /\ cmd = "scaffold" /\ handler_mode = "csv"
    /\ dau' = "pending"
    /\ IF Len(argv.f) = 0
       THEN /\ Continue("returned")
            /\ idx' = 0
            /\ calls' = Append(calls, Launch("logDAU", ""))
       ELSE /\ Continue("createTableFromCSV")
            /\ idx' = 1
            /\ calls' = calls \o <<Launch("logDAU", ""),
                                   Call("CreateTableFromCSV", argv.f[1])>>
    /\ UNCHANGED <<credVars, cwd, cmd, argv, remoteVars, tableName, colNames, app, requests, out, isd>>

\* await createTableFromCSV(csvFileName, credentials, false, false) settles
\* with the table's name and the columns of the file's header.
createTableFromCSV ==
    /\ alive /\ pc = "createTableFromCSV"
    /\ \E resp \in BOOLEAN, cn \in ColLists :
         LET tn == csvTableName(argv.f[idx])
             ok == tn \notin tables /\ resp
             after == handler_afterTable(tn, cn)
         IN  /\ requests' = Append(requests, Req("CreateTable", tn, 0))
             /\ tables' = IF ok THEN tables \cup {tn} ELSE tables
             /\ tableName' = IF ok THEN tn ELSE tableName
             /\ colNames' = IF ok THEN cn ELSE colNames
             /\ out' = IF ok
                       THEN Append(out, Msg("stdout", "Created $1 table.", tn))
                       ELSE out
             /\ handler_await(ok, "CreateTableFromCSV", tn, after.pc, after.evs)
    /\ UNCHANGED <<credVars, cwd, cmd, argv, workflows, pages, rows, nextId, idx, app, detachedVars>>

\* ------------------------------------------ detached: insertSampleData
\* `void insertSampleData(...)`: nothing handles the promise's rejection.
\* What Node does with an unhandled rejection depends on its version: it
\* ends the process with code 1 (the default since Node 15) or only warns.
insertSampleData_rejected ==
    /\ isd' = "rejected"
    /\ \E crash \in BOOLEAN :
         IF crash THEN Exit(1, "insertSampleData")
         ELSE UNCHANGED procVars

\* The table-info GET settles; infoRes.data.tableInfo is then read.
insertSampleData_info ==
    /\ alive /\ isd = "info"
    /\ \E ok \in BOOLEAN :
         IF ok THEN isd' = "gpt" /\ UNCHANGED procVars
         ELSE insertSampleData_rejected
    /\ UNCHANGED <<credVars, cwd, cmd, argv, remoteVars, localVars, logVars, dau>>

\* generateDataWithGPT settles, with data or with nothing.
insertSampleData_gpt ==
    /\ alive /\ isd = "gpt"
    /\ \E generatedData \in BOOLEAN :
         /\ isd' = IF generatedData THEN "insert" ELSE "done"
         /\ requests' = IF generatedData
                        THEN Append(requests, Req("BulkInsertIntoTable", tableName, 0))
                        ELSE requests
    /\ UNCHANGED <<credVars, cwd, cmd, argv, remoteVars, procVars, localVars, calls, out, dau>>

\* The bulk insert settles.
insertSampleData_insert ==
    /\ alive /\ isd = "insert"
    /\ \E ok \in BOOLEAN :
         IF ok
         THEN /\ isd' = "done"
              /\ rows' = rows \cup {tableName}
              /\ UNCHANGED procVars
         ELSE /\ insertSampleData_rejected
              /\ UNCHANGED rows
    /\ UNCHANGED <<credVars, cwd, cmd, argv, tables, workflows, pages, nextId, localVars, logVars, dau>>

\* ------------------------------------------------ commands/apps: delete
\* The branch the handler takes, of the two looked at here: argv.delete,
\* else argv.export (a list given without names is an empty array, truthy).
apps_handler_mode ==
    IF argv.deleteGiven THEN "delete"
    ELSE IF argv.exportGiven THEN "export"
    ELSE "none"

\* `retool apps -d`: from the credentials into the loop over the names.
apps_handler_delete ==
    /\ alive /\ pc = "getCredentials"
    /\ cmd = "apps"
    /\ apps_handler_mode = "delete"
    /\ dau' = "pending"
    /\ IF Len(argv.deleteNames) = 0
       THEN /\ Continue("returned")
            /\ idx' = 0
            /\ calls' = Append(calls, Launch("logDAU", ""))
       ELSE /\ Continue(deleteApp_entry)
            /\ idx' = 1
            /\ calls' = calls \o <<Launch("logDAU", "")>>
                              \o deleteApp_entryEvs(argv.deleteNames[1])
    /\ UNCHANGED <<credVars, cwd, cmd, argv, remoteVars, tableName, colNames, app, requests, out, isd>>

\* ------------------------------------------------ commands/apps: export
\* `retool apps -e`: from the credentials into the loop over the names.
apps_handler_export ==
    /\ alive /\ pc = "getCredentials"
    /\ cmd = "apps"
    /\ apps_handler_mode = "export"
    /\ dau' = "pending"
    /\ IF Len(argv.exportNames) = 0
       THEN /\ Continue("returned")
            /\ idx' = 0
            /\ calls' = Append(calls, Launch("logDAU", ""))
       ELSE /\ Continue("exportApp.fetch")
            /\ idx' = 1
            /\ calls' = calls \o <<Launch("logDAU", ""),
                                  Call("ExportApp", argv.exportNames[1])>>
    /\ UNCHANGED <<credVars, cwd, cmd, argv, remoteVars, tableName, colNames, app, requests, out, isd>>

\* --------------------------------------------------- detached: logDAU
\* The telemetry request settles, one way or the other; nobody looks.
logDAU ==
    /\ alive /\ dau = "pending"
    /\ \E ok \in BOOLEAN : dau' = IF ok THEN "done" ELSE "failed"
    /\ UNCHANGED <<credVars, cwd, cmd, argv, remoteVars, procVars, localVars, logVars, isd>>

\* ---------------------------------------------------------- process end
\* Node ends the process, with code 0, once the handler has returned and
\* nothing is pending.
PendingDetached == dau = "pending" \/ isd \in {"info", "gpt", "insert"}

processEnd ==
    /\ alive /\ pc = "returned" /\ ~PendingDetached
    /\ Exit(0, "returned")
    /\ UNCHANGED <<credVars, cwd, cmd, argv, remoteVars, localVars, logVars, detachedVars>>

Next ==
    \/ handler_noCredentials
    \/ handler_delete
    \/ handler_confirm
    \/ deleteTable
    \/ deleteWorkflow
    \/ deleteApp_confirm
    \/ deleteApp_fetch
    \/ deleteApp_post
    \/ apps_handler_delete
    \/ apps_handler_export
    \/ exportApp_fetch
    \/ exportApp_post
    \/ handler_create
    \/ collectTableName
    \/ collectColumnNames
    \/ createTable
    \/ generateCRUDWorkflow
    \/ createAppForTable
    \/ handler_fromCsv
    \/ createTableFromCSV
    \/ insertSampleData_info
    \/ insertSampleData_gpt
    \/ insertSampleData_insert
    \/ logDAU
    \/ processEnd

Spec == Init /\ [][Next]_vars

\* The steps of the handler itself: each is the settling of the prompt or
\* of the awaited call it is suspended at.
HandlerNext ==
    \/ handler_noCredentials
    \/ handler_delete
    \/ handler_confirm
    \/ deleteTable
    \/ deleteWorkflow
    \/ deleteApp_confirm
    \/ deleteApp_fetch
    \/ deleteApp_post
    \/ apps_handler_delete
    \/ apps_handler_export
    \/ exportApp_fetch
    \/ exportApp_post
    \/ handler_create
    \/ collectTableName
    \/ collectColumnNames
    \/ createTable
    \/ generateCRUDWorkflow
    \/ createAppForTable
    \/ handler_fromCsv
    \/ createTableFromCSV

\* The runs in which every prompt is answered and every awaited call
\* settles; nothing is asked of the detached operations.
FairSpec == Spec /\ WF_vars(HandlerNext)

\* ======================================================= utils/credentials
\* A session of calls into utils/credentials, one after another, on one
\* disk: the login's askForCookies, the logout's deleteCredentials, and
\* fetchDBCredentials.  The commands of src/commands stay out of it.
CommandsAtRest ==
    /\ cmd = "none"
    /\ argv = NoArgv
    /\ cwd = {}
    /\ tables = {}
    /\ workflows = [w \in WorkflowNames |-> 0]
    /\ pages = <<>>
    /\ rows = {}
    /\ nextId = 1
    /\ pc = "none"
    /\ alive = FALSE
    /\ exitCode = 0
    /\ exitCause = ""
    /\ tableName = Undefined
    /\ colNames = <<>>
    /\ idx = 0
    /\ app = <<>>
    /\ calls = <<>>
    /\ requests = <<>>
    /\ out = <<>>
    /\ dau = "none"
    /\ isd = "none"

\* The disk of a user who never logged in, or who logged in before.
CredInit ==
    /\ CommandsAtRest
    /\ \/ fs = NoFile /\ written = <<>>
       \/ \E r \in LoginRecords :
             /\ fs = persistCredentials(NoFile, r)
             /\ written = <<[by |-> "login", credentials |-> r]>>
    /\ cpc = "idle"
    /\ credentials = <<>>
    /\ retoolDBUuid = Undefined
    /\ inv = CredCall("none", fs)
    /\ cout = <<>>
    /\ gets = <<>>
    /\ persists = <<>>
    /\ outcome = "none"

Get(api, id) == [api |-> api, id |-> id]

\* persistCredentials(c) is called and the write succeeds (io) or throws;
\* a write that throws is reported and ends the process.
persistCredentials_call(c, io, by, said) ==
    /\ persists' = Append(persists, c)
    /\ IF io
       THEN /\ fs' = persistCredentials(fs, c)
            /\ written' = <<[by |-> by, credentials |-> c]>>
            /\ cout' = cout \o said
            /\ outcome' = "returned"
       ELSE /\ cout' = Append(cout, Msg("stderr",
                           "Error saving credentials to disk, exiting: ", ""))
            /\ outcome' = "exit1"
            /\ UNCHANGED <<fs, written>>

\* askForCookies(): the questions are put; the answer comes later.
askForCookies ==
    /\ cpc = "idle"
    /\ cpc' = "askForCookies.prompt"
    /\ inv' = CredCall("askForCookies", fs)
    /\ cout' = <<>>
    /\ gets' = <<>>
    /\ persists' = <<>>
    /\ outcome' = "running"
    /\ UNCHANGED <<fs, credentials, retoolDBUuid, written, commandVars>>

\* Whether the callback gets past validateCookies, which ends the process
\* when it logs an error.
askForCookies_persists_always(errs) == TRUE

askForCookies_persists(errs) == errs = <<>>

\* The callback of the prompt: validateCookies, persistCredentials, report.
askForCookies_then ==
    /\ cpc = "askForCookies.prompt"
    /\ cpc' = "idle"
    /\ \E answer \in Answers, io \in BOOLEAN :
         LET errs == validateCookies(answer)
         IN  /\ inv' = [inv EXCEPT !.answer = <<answer>>]
             /\ IF askForCookies_persists(errs)
                THEN persistCredentials_call(answer, io, "askForCookies",
                         <<Msg("stdout", "Successfully saved credentials.", "")>>)
                ELSE /\ cout' = cout \o errs
                     /\ outcome' = "exit1"
                     /\ UNCHANGED <<fs, written, persists>>
    /\ UNCHANGED <<credentials, retoolDBUuid, gets, commandVars>>

\* deleteCredentials()
deleteCredentials ==
    /\ cpc = "idle"
    /\ inv' = CredCall("deleteCredentials", fs)
    /\ IF ~existsSync(fs, CREDENTIALS_PATH)
       THEN /\ cout' = <<Msg("stdout",
                           "No credentials found! To log in, run: retool login", "")>>
            /\ UNCHANGED <<fs, written>>
       ELSE /\ fs' = unlinkSync(fs, CREDENTIALS_PATH)
            /\ written' = <<>>
            /\ cout' = <<>>
    /\ gets' = <<>>
    /\ persists' = <<>>
    /\ outcome' = "returned"
    /\ UNCHANGED <<cpc, credentials, retoolDBUuid, commandVars>>

\* fetchDBCredentials(), up to its first await: without credentials it
\* returns at once, else it asks for the account's resources.
fetchDBCredentials ==
    /\ cpc = "idle"
    /\ inv' = CredCall("fetchDBCredentials", fs)
    /\ credentials' = getCredentials(fs)
    /\ retoolDBUuid' = Undefined
    /\ cout' = <<>>
    /\ persists' = <<>>
    /\ IF credentials' = <<>>
       THEN /\ gets' = <<>>
            /\ outcome' = "returned"
            /\ cpc' = "idle"
       ELSE /\ gets' = <<Get("resources", "")>>
            /\ outcome' = "running"
            /\ cpc' = "fetchDBCredentials.resources"
    /\ UNCHANGED <<fs, written, commandVars>>

\* resources?.data?.resources?.filter(r => r.displayName === "retool_db"):
\* <<>> stands for the undefined that a body without the list gives.
fetchDBCredentials_retoolDBs(resp) ==
    LET IsRetoolDB(resource) == resource.displayName = "retool_db"
    IN  IF resp.hasList THEN SelectSeq(resp.resources, IsRetoolDB) ELSE <<>>

\* retoolDBs?.length < 1 : false for undefined, as undefined < 1 is.
fetchDBCredentials_notFound(resp) ==
    resp.hasList /\ Len(fetchDBCredentials_retoolDBs(resp)) < 1

\* const retoolDBUuid = retoolDBs[0].name
fetchDBCredentials_retoolDBUuid_last(retoolDBs) == retoolDBs[Len(retoolDBs)].name

fetchDBCredentials_retoolDBUuid(retoolDBs) == retoolDBs[1].name

\* The first GET settles: an error ends the process; no retool_db among
\* the resources is reported and ends the call; retoolDBs[0] of undefined
\* throws, which rejects the call's promise; else the grid is asked for.
fetchDBCredentials_resources ==
    /\ cpc = "fetchDBCredentials.resources"
    /\ \E resp \in ResourcesResponses :
         LET retoolDBs == fetchDBCredentials_retoolDBs(resp)
         IN  /\ inv' = [inv EXCEPT !.resources = <<resp>>]
             /\ IF resp.status = "error"
                THEN /\ outcome' = "exit1" /\ cpc' = "idle"
                     /\ UNCHANGED <<cout, gets, retoolDBUuid>>
                ELSE IF fetchDBCredentials_notFound(resp)
                THEN /\ cout' = Append(cout, Msg("stdout",
                           "Error: Retool DB not found. Create one at https://$1/resources", ""))
                     /\ outcome' = "returned" /\ cpc' = "idle"
                     /\ UNCHANGED <<gets, retoolDBUuid>>
                ELSE IF ~resp.hasList
                THEN /\ outcome' = "rejected" /\ cpc' = "idle"
                     /\ UNCHANGED <<cout, gets, retoolDBUuid>>
                ELSE /\ retoolDBUuid' = fetchDBCredentials_retoolDBUuid(retoolDBs)
                     /\ gets' = Append(gets,
                           Get("grid", fetchDBCredentials_retoolDBUuid(retoolDBs)))
                     /\ cpc' = "fetchDBCredentials.grid"
                     /\ UNCHANGED <<cout, outcome>>
    /\ UNCHANGED <<fs, written, credentials, persists, commandVars>>

\* grid?.data?.gridInfo?.connectionString?.length > 0
fetchDBCredentials_hasConnectionString(grid) ==
    /\ grid.hasGridInfo
    /\ grid.connectionString # Undefined
    /\ grid.connectionString # ""

\* { ...credentials, retoolDBUuid, gridId: ..., hasConnectionString: ... }
fetchDBCredentials_merged_fresh(c, uuid, grid) ==
    [domain |-> c.domain, xsrf |-> c.xsrf, accessToken |-> c.accessToken,
     retoolDBUuid |-> uuid,
     gridId |-> IF grid.hasGridInfo THEN grid.id ELSE Undefined,
     hasConnectionString |-> fetchDBCredentials_hasConnectionString(grid)]

fetchDBCredentials_merged(c, uuid, grid) ==
    [k \in DOMAIN c \cup {"retoolDBUuid", "gridId", "hasConnectionString"} |->
        IF k = "retoolDBUuid" THEN uuid
        ELSE IF k = "gridId" THEN (IF grid.hasGridInfo THEN grid.id ELSE Undefined)
        ELSE IF k = "hasConnectionString"
        THEN fetchDBCredentials_hasConnectionString(grid)
        ELSE c[k]]

\* The second GET settles: an error ends the process; else the merged
\* object is persisted.
fetchDBCredentials_grid ==
    /\ cpc = "fetchDBCredentials.grid"
    /\ cpc' = "idle"
    /\ \E grid \in GridResponses, io \in BOOLEAN :
         /\ inv' = [inv EXCEPT !.grid = <<grid>>]
         /\ IF grid.status = "error"
            THEN /\ outcome' = "exit1"
                 /\ UNCHANGED <<fs, written, cout, persists>>
            ELSE persistCredentials_call(
                     fetchDBCredentials_merged(credentials[1], retoolDBUuid, grid),
                     io, "fetchDBCredentials", <<>>)
    /\ UNCHANGED <<credentials, retoolDBUuid, gets, commandVars>>

CredNext ==
    \/ askForCookies
    \/ askForCookies_then
    \/ deleteCredentials
    \/ fetchDBCredentials
    \/ fetchDBCredentials_resources
    \/ fetchDBCredentials_grid

CredSpec == CredInit /\ [][CredNext]_vars

\* ================================================================ claims
EvIdx(kind, op) == {i \in 1..Len(calls) : calls[i].ev = kind /\ calls[i].op = op}
Called(op) == EvIdx("call", op) # {}
Returned(op) == EvIdx("return", op) # {}
Failed(op) == EvIdx("fail", op) # {}
ReqKinds == {requests[i].kind : i \in 1..Len(requests)}
ReqIdx(kind) == {i \in 1..Len(requests) : requests[i].kind = kind}
Declined == \E i \in 1..Len(calls) : calls[i].ev = "answer" /\ calls[i].col = "no"
Prompted == \E i \in 1..Len(calls) : calls[i].ev = "prompt"
DeleteOps == {"DeleteTable", "DeleteWorkflow", "DeleteApp"}
DeleteReqs == {"DeleteTable", "DeleteWorkflow", "deletePage"}
InScaffold(mode) == cmd = "scaffold" /\ handler_mode = mode

\* A failure is the last thing a run does: the process has ended with
\* code 1 and no event follows the failure.
FailureIsFinal ==
    \A i \in 1..Len(calls) :
        calls[i].ev = "fail" => i = Len(calls) /\ ~alive /\ exitCode = 1

\* C1: when the user declines scaffold's confirmation, no delete operation
\* is invoked, no remote request is made, and the process has ended with
\* exit code 0.
C1_DeclineDeletesNothing ==
    (cmd = "scaffold" /\ Declined) =>
        /\ ~alive /\ exitCode = 0
        /\ InvokedOps \cap DeleteOps = {}
        /\ requests = <<>>

C1_Witness == cmd = "scaffold" /\ Declined /\ ~alive

\* C2: scaffold's delete pipeline is fail-fast without rollback: a failed
\* step is the last event of the run (exit code 1), no later delete is
\* invoked or requested after it, and what was deleted stays deleted (no
\* request other than a delete is ever made).
C2_DeleteFailFast ==
    InScaffold("delete") =>
        /\ FailureIsFinal
        /\ Failed("DeleteTable") =>
              /\ InvokedOps \cap {"DeleteWorkflow", "DeleteApp"} = {}
              /\ ReqKinds \cap {"DeleteWorkflow", "deletePage"} = {}
        /\ Failed("DeleteWorkflow") =>
              /\ "DeleteApp" \notin InvokedOps
              /\ "deletePage" \notin ReqKinds
        /\ Returned("DeleteTable") => tableName \notin tables
        /\ Returned("DeleteWorkflow") => workflows[WorkflowNameOf(tableName)] = 0
        /\ ReqKinds \subseteq DeleteReqs

C2_Witness ==
    /\ InScaffold("delete")
    /\ Returned("DeleteTable") /\ Failed("DeleteWorkflow")
    /\ tableName \notin tables

\* C3: the plain-create pipeline is fail-fast: after a failed CreateTable
\* neither InsertSampleData, CreateWorkflow nor CreateApp is invoked; after
\* a failed CreateWorkflow CreateApp is not invoked; a failure ends the run;
\* a created table stays (no delete is ever requested).
C3_CreateFailFast ==
    InScaffold("create") =>
        /\ FailureIsFinal
        /\ Failed("CreateTable") =>
              /\ InvokedOps \cap {"InsertSampleData", "CreateWorkflow", "CreateApp"} = {}
              /\ isd = "none"
              /\ ReqKinds \subseteq {"CreateTable"}
        /\ Failed("CreateWorkflow") =>
              /\ "CreateApp" \notin InvokedOps
              /\ "autogeneratePage" \notin ReqKinds
        /\ Returned("CreateTable") => tableName \in tables
        /\ ReqKinds \cap DeleteReqs = {}

C3_Witness ==
    /\ InScaffold("create")
    /\ Returned("CreateTable") /\ Failed("CreateWorkflow")
    /\ tableName \in tables

\* C4: with --no-workflow, CreateWorkflow is never invoked nor requested,
\* in plain-create and in from-csv runs alike, and every table made is
\* followed by the call of CreateApp.
C4_NoWorkflow ==
    (cmd = "scaffold" /\ argv.noWorkflow) =>
        /\ "CreateWorkflow" \notin InvokedOps
        /\ "CreateWorkflow" \notin ReqKinds
        /\ \A w \in WorkflowNames : workflows[w] = 0
        /\ Cardinality(EvIdx("call", "CreateApp"))
             = Cardinality(EvIdx("return", "CreateTable")
                             \cup EvIdx("return", "CreateTableFromCSV"))

C4_Witness ==
    /\ cmd = "scaffold" /\ argv.noWorkflow
    /\ Returned("CreateTable") /\ Returned("CreateApp")

\* The events of the pipeline: all but the telemetry's launch.
IsPipelineEvent(e) == e.op \notin {"logDAU", "getCredentials"}
PipelineEvents == SelectSeq(calls, IsPipelineEvent)
IsAwaitEvent(e) == IsPipelineEvent(e) /\ e.ev \in {"call", "return", "fail"}
AwaitEvents == SelectSeq(calls, IsAwaitEvent)

\* C5: a plain-create run with the workflow enabled issues, when every
\* step succeeds, exactly CreateTable(name, columns), the launch of
\* InsertSampleData(name), CreateWorkflow("<name> CRUD Workflow") and
\* CreateApp("<name> App", name, a column), each once, in this order, with
\* the name and columns of the command line when it gives them; and at any
\* moment of such a run every awaited call but the last has returned
\* before the next one was made.
C5_CreateOrder ==
    (InScaffold("create") /\ ~argv.noWorkflow) =>
        /\ \A i \in 1..Len(AwaitEvents) :
              IF i % 2 = 1
              THEN AwaitEvents[i].ev = "call"
              ELSE /\ AwaitEvents[i].ev \in {"return", "fail"}
                   /\ AwaitEvents[i].op = AwaitEvents[i - 1].op
        /\ pc = "returned" =>
              LET P == PipelineEvents
                  wf == tableName \o " CRUD Workflow"
                  ap == tableName \o " App"
              IN  /\ Len(P) = 7
                  /\ P[1] = Ev("call", "CreateTable", tableName, tableName, "", colNames)
                  /\ P[2] = Ev("return", "CreateTable", tableName, "", "", <<>>)
                  /\ P[3] = Ev("launch", "InsertSampleData", tableName, "", "", <<>>)
                  /\ P[4] = Ev("call", "CreateWorkflow", wf, tableName, "", <<>>)
                  /\ P[5] = Ev("return", "CreateWorkflow", wf, "", "", <<>>)
                  /\ P[6].ev = "call" /\ P[6].op = "CreateApp"
                  /\ P[6].name = ap /\ P[6].table = tableName
                  /\ P[7] = Ev("return", "CreateApp", ap, "", "", <<>>)
                  /\ Truthy(argv.name) => tableName = argv.name
                  /\ Len(argv.columns) > 0 => colNames = argv.columns

C5_Witness ==
    /\ InScaffold("create") /\ ~argv.noWorkflow
    /\ pc = "returned" /\ argv.name = "orders" /\ argv.columns = <<"id", "name">>

\* C6: the search column CreateApp is called with is the first of the
\* pipeline's columns that is not "id", and "id" when there is none.
C6_SearchColumnIsFirstNonId ==
    \A i \in EvIdx("call", "CreateApp") :
        calls[i].col = firstNonPkey(calls[i].cols, "id")

\* C7: scaffold's delete run with --force shows no confirmation prompt and
\* calls DeleteTable(name), DeleteWorkflow("<name> CRUD Workflow") and
\* DeleteApp("<name> App") in this order; without --force the prompt comes
\* before any delete.
C7_ForceSkipsConfirmation ==
    InScaffold("delete") =>
        /\ argv.force => ~Prompted
        /\ (pc = "returned" /\ argv.force) =>
              Invoked = << Launch("logDAU", ""),
                           Call("DeleteTable", argv.delete),
                           Call("DeleteWorkflow", argv.delete \o " CRUD Workflow"),
                           Call("DeleteApp", argv.delete \o " App") >>
        /\ (~argv.force /\ InvokedOps \cap DeleteOps # {}) => Prompted

\* The live (not trashed) apps of a name, and deleteApp's current name.
LiveNamed(name) == appsNamed(getAppsAndFolders(pages, Folders), name)
LookupFailed ==
    /\ ~alive /\ exitCause = "DeleteApp"
    /\ out # <<>> /\ out[Len(out)].stream = "stderr"
CurrentAppName == deleteApp_appName(idx)

\* C8: a delete whose name matches no resource or several fails with exit
\* code 1 without requesting the remote delete; the delete of an app is
\* requested only while exactly one live app has the name, and for that
\* app's identifier.
C8_DeleteNeedsOneMatch ==
    /\ (alive /\ pc = "deleteApp.post") =>
          /\ Len(LiveNamed(CurrentAppName)) = 1
          /\ requests[Len(requests)]
               = Req("deletePage", CurrentAppName, LiveNamed(CurrentAppName)[1].id)
          /\ Cardinality(ReqIdx("deletePage"))
               = Cardinality(EvIdx("return", "DeleteApp")) + 1
    /\ LookupFailed =>
          /\ exitCode = 1
          /\ Len(app) # 1
          /\ Cardinality(ReqIdx("deletePage")) = Cardinality(EvIdx("return", "DeleteApp"))
    /\ Failed("DeleteTable") =>
          /\ exitCode = 1
          /\ tableName \in tables <=> "DeleteTable" \in ReqKinds
    /\ Failed("DeleteWorkflow") =>
          /\ exitCode = 1
          /\ workflows[WorkflowNameOf(tableName)] = 1 <=> "DeleteWorkflow" \in ReqKinds

C8_Witness ==
    /\ LookupFailed /\ Len(app) = 2
    /\ Len(LiveNamed(CurrentAppName)) = 2
    /\ "deletePage" \notin ReqKinds

C10_DetachedNeverFailsRun ==
    (~alive /\ exitCode = 1) => (calls # <<>> /\ calls[Len(calls)].ev = "fail")

CreateOps ==
    {"CreateTable", "CreateTableFromCSV", "InsertSampleData", "CreateWorkflow",
     "CreateApp"}
CreateReqs ==
    {"CreateTable", "CreateWorkflow", "autogeneratePage", "BulkInsertIntoTable"}
PlainCreateAwaits == {"collectTableName", "collectColumnNames", "createTable"}

\* C11: scaffold runs one mode, chosen delete > from-csv > plain create.
\* With -d no create operation is invoked or requested, whatever else the
\* command line gives; with -f and no -d neither a delete nor the plain
\* create (its questions, createTable, insertSampleData) happens; with
\* neither, no delete and no createTableFromCSV happens.
C11_OneModeByPriority ==
    cmd = "scaffold" =>
        /\ Truthy(argv.delete) =>
              /\ InvokedOps \cap CreateOps = {}
              /\ ReqKinds \cap CreateReqs = {}
              /\ pc \notin PlainCreateAwaits \cup {"createTableFromCSV"}
              /\ isd = "none"
        /\ (~Truthy(argv.delete) /\ argv.fGiven) =>
              /\ InvokedOps \cap (DeleteOps \cup {"CreateTable", "InsertSampleData"}) = {}
              /\ ReqKinds \cap (DeleteReqs \cup {"BulkInsertIntoTable"}) = {}
              /\ ~Prompted
              /\ pc \notin PlainCreateAwaits
              /\ isd = "none"
        /\ (~Truthy(argv.delete) /\ ~argv.fGiven) =>
              /\ InvokedOps \cap (DeleteOps \cup {"CreateTableFromCSV"}) = {}
              /\ ReqKinds \cap DeleteReqs = {}
              /\ ~Prompted

C11_Witness ==
    /\ cmd = "scaffold"
    /\ Truthy(argv.delete) /\ argv.fGiven /\ Truthy(argv.name)
    /\ Len(argv.columns) > 0
    /\ pc = "returned" /\ Returned("DeleteApp")

\* The handler ran to its end and every step it called returned.
AllStepsSucceeded ==
    /\ pc = "returned"
    /\ \A i \in 1..Len(calls) : calls[i].ev # "fail"
AnyStepFailed == \E i \in 1..Len(calls) : calls[i].ev = "fail"
SuccessReports(text) == {i \in 1..Len(out) : out[i].msg = text}

\* C12: a scaffold run that has ended has exit code 0 exactly when all its
\* steps succeeded or the user declined the confirmation, and exit code 1
\* when a step failed; a create-app response without pageUuid ends the run
\* with exit code 1 and without the report of success.
C12_ExitCodes ==
    (cmd = "scaffold" /\ ~alive) =>
        /\ exitCode \in {0, 1}
        /\ exitCode = 0 <=> (AllStepsSucceeded \/ Declined)
        /\ AnyStepFailed => exitCode = 1
        /\ (out # <<>> /\ out[Len(out)].msg = "Error creating app.") =>
              /\ exitCode = 1
              /\ Cardinality(SuccessReports("Successfully created an App."))
                   = Cardinality(EvIdx("return", "CreateApp"))

\* ----------------------------------------------- utils/credentials claims
\* The samples that are well formed by the grammar of each field: a UUID
\* of version 4 in canonical form; three non-empty segments of URL-safe
\* characters between two dots; a DNS hostname.
WellFormedXsrf == {Xsrf_example}
WellFormedAccessToken == {Jwt_three}
WellFormedDomain == {Domain_org, Domain_local}
WellFormed(c) ==
    /\ c.xsrf \in WellFormedXsrf
    /\ c.accessToken \in WellFormedAccessToken
    /\ c.domain \in WellFormedDomain
ValidationErrors ==
    { Msg("stdout", "Error: XSRF token is invalid.", ""),
      Msg("stdout", "Error: Access token is invalid.", ""),
      Msg("stdout", "Error: Domain is invalid.", "") }
Answered(op) == inv.op = op /\ inv.answer # <<>>
BaseKeys == {"domain", "xsrf", "accessToken"}
DerivedKeys == {"gridId", "retoolDBUuid", "hasConnectionString"}
CredentialKeys == BaseKeys \cup DerivedKeys \cup DOMAIN Profile
HasDerived(d) ==
    doCredentialsExist(d) /\ DOMAIN getCredentials(d)[1] \cap DerivedKeys # {}

\* C13: validation of a login's answer reports one error, that of the first
\* malformed field in the order session token, access token, domain, and
\* ends the process; a well-formed answer gets no error; the answer is
\* handed on as it was given.
C13_FirstMalformedFieldReported ==
    Answered("askForCookies") =>
        LET c == inv.answer[1]
            errors == {i \in 1..Len(cout) : cout[i] \in ValidationErrors}
        IN  /\ c.xsrf \notin WellFormedXsrf =>
                  cout = <<Msg("stdout", "Error: XSRF token is invalid.", "")>>
            /\ (c.xsrf \in WellFormedXsrf
                  /\ c.accessToken \notin WellFormedAccessToken) =>
                  cout = <<Msg("stdout", "Error: Access token is invalid.", "")>>
            /\ (c.xsrf \in WellFormedXsrf
                  /\ c.accessToken \in WellFormedAccessToken
                  /\ c.domain \notin WellFormedDomain) =>
                  cout = <<Msg("stdout", "Error: Domain is invalid.", "")>>
            /\ ~WellFormed(c) => outcome = "exit1"
            /\ WellFormed(c) => errors = {}
            /\ \A i \in 1..Len(persists) : persists[i] = c

C13_Witness ==
    /\ Answered("askForCookies")
    /\ inv.answer[1].xsrf = Xsrf_example
    /\ inv.answer[1].accessToken = Jwt_emptySegment
    /\ inv.answer[1].domain = Domain_hyphen
    /\ outcome = "exit1"

\* C14: whatever calls were made, a record on the disk has the three base
\* fields, well formed; a login whose answer is malformed persists nothing
\* and leaves the disk as it found it; a record has derived fields only
\* when fetchDBCredentials wrote it last.
C14_PersistedRecordIsValid ==
    /\ doCredentialsExist(fs) =>
          /\ BaseKeys \subseteq DOMAIN getCredentials(fs)[1]
          /\ WellFormed(getCredentials(fs)[1])
    /\ (Answered("askForCookies") /\ ~WellFormed(inv.answer[1])) =>
          /\ persists = <<>>
          /\ fs = inv.before
    /\ HasDerived(fs) =>
          /\ written # <<>> /\ written[1].by = "fetchDBCredentials"
          /\ "retoolDBUuid" \in DOMAIN getCredentials(fs)[1]

C14_Witness ==
    /\ Answered("askForCookies") /\ ~WellFormed(inv.answer[1])
    /\ HasDerived(inv.before)
    /\ fs = inv.before

\* The resources' response names no "retool_db": the list is empty, is
\* missing, or holds other resources only.
NoRetoolDB(resp) ==
    /\ resp.status = "ok"
    /\ \A i \in 1..Len(resp.resources) :
          resp.resources[i].displayName # "retool_db"
Resolving == inv.op = "fetchDBCredentials" /\ inv.resources # <<>>

\* C15: when no resource is named "retool_db" (the list may be empty or
\* missing), fetchDBCredentials reports that the database was not found
\* and returns: it does not throw, asks for no grid, persists nothing and
\* leaves the disk as it found it.
C15_NotFoundIsGraceful ==
    (Resolving /\ NoRetoolDB(inv.resources[1])) =>
        /\ cpc = "idle" /\ outcome = "returned"
        /\ Len(cout) = 1
        /\ gets = <<Get("resources", "")>>
        /\ persists = <<>>
        /\ fs = inv.before

\* The resource named "retool_db", when the response lists exactly one.
RetoolDBsOf(resp) ==
    {i \in 1..Len(resp.resources) : resp.resources[i].displayName = "retool_db"}
Resolved ==
    /\ Resolving /\ inv.grid # <<>>
    /\ inv.grid[1].status = "ok"
    /\ outcome = "returned"

\* C16: with exactly one resource named "retool_db", a resolution that
\* completes leaves on the disk the record it found with every base and
\* profile field as it was, retoolDBUuid the resource's identifier, gridId
\* the fetched grid's identifier (none when the grid has none) and
\* hasConnectionString true exactly when the grid has a connection string
\* that is not empty; it adds no other field.
C16_ResolutionMerges ==
    (Resolved /\ Cardinality(RetoolDBsOf(inv.resources[1])) = 1) =>
        LET before == getCredentials(inv.before)[1]
            now == getCredentials(fs)[1]
            resp == inv.resources[1]
            db == resp.resources[CHOOSE i \in RetoolDBsOf(resp) : TRUE]
            grid == inv.grid[1]
        IN  /\ \A k \in DOMAIN before \ DerivedKeys :
                  k \in DOMAIN now /\ now[k] = before[k]
            /\ DOMAIN now \subseteq DOMAIN before \cup DerivedKeys
            /\ now.retoolDBUuid = db.name
            /\ IF grid.hasGridInfo
               THEN now.gridId = grid.id
               ELSE "gridId" \notin DOMAIN now
            /\ now.hasConnectionString
                  = (grid.hasGridInfo /\ grid.connectionString \notin {Undefined, ""})

C16_Witness ==
    /\ Resolved /\ Cardinality(RetoolDBsOf(inv.resources[1])) = 1
    /\ Len(inv.resources[1].resources) = 2
    /\ "email" \in DOMAIN getCredentials(inv.before)[1]
    /\ getCredentials(fs)[1].hasConnectionString
    /\ getCredentials(fs)[1].retoolDBUuid = "uuid-2"

\* C17: without a credentials file fetchDBCredentials does nothing: no
\* request, no write, no message, a normal return, and still no file.
C17_NoRecordNoOp ==
    (inv.op = "fetchDBCredentials" /\ ~existsSync(inv.before, CREDENTIALS_PATH)) =>
        /\ cpc = "idle" /\ outcome = "returned"
        /\ gets = <<>>
        /\ persists = <<>>
        /\ cout = <<>>
        /\ fs = inv.before

C17_Witness ==
    /\ inv.op = "fetchDBCredentials" /\ ~existsSync(inv.before, CREDENTIALS_PATH)
    /\ outcome = "returned"

\* Two objects give the same value for every property read of them.
SameReads(a, b) ==
    LET Has(o, k) == k \in DOMAIN o /\ ((k = "gridId") => o[k] # Undefined)
    IN  \A k \in CredentialKeys :
            /\ Has(a, k) <=> Has(b, k)
            /\ Has(a, k) => a[k] = b[k]

\* C18: the store.  Without a file getCredentials gives nothing and
\* doCredentialsExist is false; deleteCredentials without a file changes
\* nothing and gives the notice, with a file it removes it without a word;
\* there is a file exactly when something was persisted since the last
\* removal, and getCredentials then gives the object persisted last, whole
\* and with nothing of the record before it; there is at most one file.
C18_StoreHoldsLastPersisted ==
    /\ ~doCredentialsExist(fs) => getCredentials(fs) = <<>>
    /\ inv.op = "deleteCredentials" =>
          /\ ~doCredentialsExist(fs) /\ getCredentials(fs) = <<>>
          /\ outcome = "returned"
          /\ IF doCredentialsExist(inv.before)
             THEN cout = <<>>
             ELSE /\ fs = inv.before
                  /\ cout = <<Msg("stdout",
                         "No credentials found! To log in, run: retool login", "")>>
    /\ doCredentialsExist(fs) <=> written # <<>>
    /\ written # <<>> =>
          /\ Len(getCredentials(fs)) = 1
          /\ SameReads(getCredentials(fs)[1], written[1].credentials)
    /\ Cardinality({path \in DOMAIN fs : existsSync(fs, path)}) <= 1

C18_Witness ==
    /\ inv.op = "askForCookies" /\ outcome = "returned"
    /\ HasDerived(inv.before)
    /\ ~HasDerived(fs)
    /\ getCredentials(fs)[1].domain # getCredentials(inv.before)[1].domain

\* ------------------------------------------------------- the state machine
\* Where a scaffold run is: before its pipeline (the credentials, the
\* questions for a missing name or columns), at the confirmation, at one
\* of the awaited steps, past the last of them, or ended before that.
Phase ==
    IF pc = "returned" THEN "Done"
    ELSE IF ~alive THEN "Aborted"
    ELSE IF pc \in {"getCredentials", "collectTableName", "collectColumnNames"}
    THEN "Idle"
    ELSE IF pc \in {"confirm", "deleteApp.confirm"} THEN "Confirming"
    ELSE "Step"

PhaseMoves ==
    { <<"Idle", "Idle">>, <<"Idle", "Confirming">>, <<"Idle", "Step">>,
      <<"Idle", "Done">>, <<"Idle", "Aborted">>,
      <<"Confirming", "Confirming">>, <<"Confirming", "Step">>,
      <<"Confirming", "Aborted">>,
      <<"Step", "Step">>, <<"Step", "Done">>, <<"Step", "Aborted">>,
      <<"Done", "Done">>, <<"Aborted", "Aborted">> }

StepRank(op) ==
    IF op \in {"DeleteTable", "CreateTable", "CreateTableFromCSV"} THEN 1
    ELSE IF op \in {"DeleteWorkflow", "InsertSampleData"} THEN 2
    ELSE IF op \in {"DeleteApp", "CreateWorkflow"} THEN 3
    ELSE 4

\* The steps invoked so far follow the plan: the first step first, then
\* each later than the one before (one after the other in a delete), a
\* new file of --from-csv beginning the plan again.
StepsInOrder ==
    LET IsStep(e) == IsInvocation(e) /\ e.op # "logDAU"
        steps == SelectSeq(calls, IsStep)
    IN  /\ Len(steps) > 0 => StepRank(steps[1].op) = 1
        /\ \A i \in 1..(Len(steps) - 1) :
              \/ StepRank(steps[i + 1].op) > StepRank(steps[i].op)
                   /\ (Truthy(argv.delete) =>
                         StepRank(steps[i + 1].op) = StepRank(steps[i].op) + 1)
              \/ /\ steps[i + 1].op = "CreateTableFromCSV"
                 /\ steps[i].op = "CreateApp"
                 /\ ~Truthy(argv.delete) /\ argv.fGiven

PhaseInvariant ==
    /\ Phase = "Confirming" => (Truthy(argv.delete) /\ InvokedOps \subseteq {"logDAU"})
    /\ Phase = "Idle" => InvokedOps \subseteq {"logDAU"}
    /\ StepsInOrder
    /\ (AnyStepFailed \/ Declined) => Phase = "Aborted"

PhaseStep ==
    /\ <<Phase, Phase'>> \in PhaseMoves
    /\ Phase \in {"Done", "Aborted"} => (calls' = calls /\ pc' = pc)
    /\ ~alive => (requests' = requests /\ remoteVars' = remoteVars)

\* C19: a scaffold run moves Idle, Confirming (a delete only), the steps
\* in the plan's order, Done, or to Aborted from the confirmation or a
\* step; after Done or Aborted no step is invoked and after the process
\* has ended nothing is requested; and when every prompt and awaited call
\* settles, the run reaches Done or Aborted.
C19_StateMachine ==
    /\ [](cmd = "scaffold" => PhaseInvariant)
    /\ [][cmd = "scaffold" => PhaseStep]_vars
    /\ <>(cmd = "scaffold" => Phase \in {"Done", "Aborted"})

C19_Witness ==
    /\ cmd = "scaffold" /\ Truthy(argv.delete)
    /\ Phase = "Aborted" /\ Returned("DeleteTable") /\ Failed("DeleteWorkflow")

\* ------------------------------------------------------------ the reports
\* The reports of success that name n, by their text.
Reported(text, n) == \E i \in 1..Len(out) : out[i].msg = text /\ out[i].name = n
ReportsOf(text) == Cardinality(SuccessReports(text))
ReturnsOf(ops) ==
    Cardinality({i \in 1..Len(calls) : calls[i].ev = "return" /\ calls[i].op \in ops})

\* C20: in a scaffold run every awaited step has returned, its success
\* reported, before the next one is called (calls and returns alternate,
\* and there are as many reports of each kind as steps of that kind that
\* returned); a step that failed is not reported; and what is reported
\* holds of the account: a table or workflow reported deleted is gone, one
\* reported created exists, the app reported deleted is gone, and there
\* are as many new apps as reports of a created app.
C20_ReportsFollowSuccess ==
    cmd = "scaffold" =>
        /\ \A i \in 1..Len(AwaitEvents) :
              IF i % 2 = 1
              THEN AwaitEvents[i].ev = "call"
              ELSE /\ AwaitEvents[i].ev \in {"return", "fail"}
                   /\ AwaitEvents[i].op = AwaitEvents[i - 1].op
        /\ ReportsOf("Deleted $1 table.") = ReturnsOf({"DeleteTable"})
        /\ ReportsOf("Deleted $1.") = ReturnsOf({"DeleteWorkflow"})
        /\ ReportsOf("Deleted $1 app.") = ReturnsOf({"DeleteApp"})
        /\ ReportsOf("Created $1 table.")
             = ReturnsOf({"CreateTable", "CreateTableFromCSV"})
        /\ ReportsOf("Created $1.") = ReturnsOf({"CreateWorkflow"})
        /\ ReportsOf("Successfully created an App.") = ReturnsOf({"CreateApp"})
        /\ \A t \in TableNames :
              /\ Reported("Deleted $1 table.", t) => t \notin tables
              /\ Reported("Created $1 table.", t) => t \in tables
              /\ Reported("Deleted $1.", WorkflowNameOf(t))
                    => workflows[WorkflowNameOf(t)] = 0
              /\ Reported("Created $1.", WorkflowNameOf(t))
                    => workflows[WorkflowNameOf(t)] > 0
              /\ Reported("Deleted $1 app.", AppNameOf(t))
                    => LiveNamed(AppNameOf(t)) = <<>>
              /\ Reported("Successfully created an App.", AppNameOf(t))
                    => LiveNamed(AppNameOf(t)) # <<>>
        /\ ~Truthy(argv.delete) =>
              Len(pages) = ReportsOf("Successfully created an App.")

C20_Witness ==
    /\ cmd = "scaffold"
    /\ Returned("CreateWorkflow") /\ Failed("CreateApp")
    /\ Reported("Created $1.", WorkflowNameOf(tableName))
    /\ exitCause = "CreateApp" /\ out[Len(out)].stream = "stdout"

\* The apps of a name that are in the trash, and the lookups under way or
\* just failed: of deleteApp and of exportApp.
TrashedNamed(name) ==
    LET Trashed(a) == a.name = name /\ a.folderId = ArchiveFolderId
    IN  SelectSeq(pages, Trashed)
IsTrashedId(id) ==
    \E i \in 1..Len(pages) : pages[i].id = id /\ pages[i].folderId = ArchiveFolderId
ExportLookupFailed ==
    /\ ~alive /\ exitCause = "ExportApp"
    /\ out # <<>>
    /\ out[Len(out)] = Msg("stdout", "0 or >1 Apps named $1 found.", exportApp_appName(idx))
LookupName ==
    IF exitCause = "ExportApp" \/ pc \in {"exportApp.fetch", "exportApp.post"}
    THEN exportApp_appName(idx) ELSE CurrentAppName

\* C21: apps in the trash are never counted, deleted or exported.  What a
\* lookup of deleteApp or exportApp matched is the live apps of the name (or
\* nothing, when the response held no list): a delete or an export is
\* requested only when exactly one live app has the name, whatever the
\* trash holds, and for that live app; a name that only trashed apps carry
\* matches nothing and the lookup fails; no file is written for a trashed
\* app.
C21_TrashIsInvisible ==
    /\ (alive /\ pc \in {"deleteApp.post", "exportApp.post"}) =>
          /\ app = LiveNamed(LookupName)
          /\ Len(app) = 1
          /\ ~IsTrashedId(app[1].id)
          /\ requests[Len(requests)].id = app[1].id
          /\ requests[Len(requests)].kind
               = (IF pc = "deleteApp.post" THEN "deletePage" ELSE "export")
    /\ (LookupFailed \/ ExportLookupFailed) =>
          /\ exitCode = 1
          /\ app = <<>> \/ app = LiveNamed(LookupName)
          /\ Len(LiveNamed(LookupName)) = 1 => app = <<>>
          /\ \A i \in 1..Len(app) : app[i].folderId # ArchiveFolderId
    /\ \A i \in 1..Len(requests) :
          requests[i].kind \in {"deletePage", "export"}
              => ~IsTrashedId(requests[i].id)
    /\ \A f \in cwd : ~IsTrashedId(f.id)

\* One live app and one trashed app of a name: the first `-d` of the name
\* found one match and deleted the live app; the second finds the name on
\* the trashed app alone, which is no match.
C21_Witness ==
    /\ cmd = "apps" /\ idx = 2
    /\ Returned("DeleteApp")
    /\ LookupFailed /\ app = <<>>
    /\ Len(TrashedNamed(CurrentAppName)) = 1
    /\ Len(requests) = 1 /\ ~IsTrashedId(requests[1].id)

\* `apps -d`: what the run did about deleteApp, in order (its calls, its
\* prompts and their answers, its returns and failures).
IsDeleteAppEvent(e) == e.op \in {"DeleteApp", "Confirm"}
DeleteAppEvents == SelectSeq(calls, IsDeleteAppEvent)
DeleteAppRound == IF argv.force THEN <<"call", "end">>
                  ELSE <<"call", "prompt", "answer", "end">>
EventKind(e) == IF e.ev \in {"return", "fail"} THEN "end" ELSE e.ev
AppGone(id) == \A i \in 1..Len(pages) : pages[i].id # id
DeclinedAtPrompt ==
    /\ calls # <<>>
    /\ calls[Len(calls)] = Answer(FALSE)

\* C22: `apps -d` handles its names one after another in argument order:
\* the k-th deleteApp is called only after the (k-1)-th returned, each asks
\* its own confirmation (none with --force) before its lookup, and deletes
\* are requested for a prefix of the names only.  When the user declines or
\* the lookup fails at the k-th name the process has ended at once: the
\* first k-1 apps are deleted and stay so, and no delete was requested for
\* the k-th name or a later one.
C22_AppsDeleteInOrder ==
    (cmd = "apps" /\ apps_handler_mode = "delete" /\ pc # "getCredentials") =>
        LET names == argv.deleteNames
            evs == DeleteAppEvents
            round == DeleteAppRound
            k == idx
            returns == Cardinality(EvIdx("return", "DeleteApp"))
        IN  /\ k <= Len(names)
            /\ Cardinality(EvIdx("call", "DeleteApp")) = k
            /\ \A j \in 1..Len(evs) :
                  LET nth == ((j - 1) \div Len(round)) + 1
                      at == ((j - 1) % Len(round)) + 1
                  IN  /\ EventKind(evs[j]) = round[at]
                      /\ nth <= k
                      /\ evs[j].ev # "answer" => evs[j].name = names[nth]
                      /\ (evs[j].ev = "fail" \/ evs[j] = Answer(FALSE))
                            => j = Len(evs) /\ ~alive
            /\ Len(requests) <= k
            /\ returns <= Len(requests) /\ Len(requests) <= returns + 1
            /\ \A i \in 1..Len(requests) :
                  /\ requests[i].kind = "deletePage"
                  /\ requests[i].name = names[i]
            /\ \A i \in 1..returns : AppGone(requests[i].id)
            /\ (DeclinedAtPrompt \/ LookupFailed) =>
                  /\ ~alive
                  /\ exitCode = (IF DeclinedAtPrompt THEN 0 ELSE 1)
                  /\ returns = k - 1
                  /\ Len(requests) = k - 1
            /\ (pc = "returned") => returns = Len(names)

\* The user confirmed the first name, its app was deleted, and declined
\* the second.
C22_Witness ==
    /\ cmd = "apps" /\ apps_handler_mode = "delete" /\ ~argv.force
    /\ idx = 2 /\ DeclinedAtPrompt /\ ~alive /\ exitCode = 0
    /\ Len(requests) = 1 /\ AppGone(requests[1].id)
    /\ Len(DeleteAppEvents) = 7

\* --from-csv: the steps of one file, and the request each step makes.
CsvRound ==
    IF argv.noWorkflow THEN <<"CreateTableFromCSV", "CreateApp">>
    ELSE <<"CreateTableFromCSV", "CreateWorkflow", "CreateApp">>
CsvRequestKind(op) ==
    IF op = "CreateTableFromCSV" THEN "CreateTable"
    ELSE IF op = "CreateWorkflow" THEN "CreateWorkflow"
    ELSE "autogeneratePage"
\* The name a step's request carries, and the name its call is logged with.
CsvStepName(op, file) ==
    IF op = "CreateTableFromCSV" THEN csvTableName(file)
    ELSE IF op = "CreateWorkflow" THEN WorkflowNameOf(csvTableName(file))
    ELSE AppNameOf(csvTableName(file))
ReturnsNamed(op, name) ==
    Cardinality({i \in EvIdx("return", op) : calls[i].name = name})
PagesNamed(name) ==
    Cardinality({i \in 1..Len(pages) : pages[i].name = name})

\* C23: --from-csv takes its files one after another in argument order,
\* each as create table, create workflow (unless --no-workflow), create
\* app, a step being called only after the one before returned.  A step
\* that fails for file k ends the run with exit code 1: nothing was called
\* or requested for a later file, and what the steps before it created (for
\* the files before k, and for file k) is still there.
C23_FromCsvInOrder ==
    (cmd = "scaffold" /\ handler_mode = "csv" /\ pc # "getCredentials") =>
        LET files == argv.f
            evs == PipelineEvents
            round == CsvRound
            ends == {j \in 1..Len(evs) : evs[j].ev \in {"return", "fail"}}
        IN  /\ idx <= Len(files)
            /\ \A j \in 1..Len(evs) :
                  LET step == (j - 1) \div 2
                      nth == (step \div Len(round)) + 1
                      op == round[(step % Len(round)) + 1]
                  IN  /\ nth <= idx
                      /\ evs[j].op = op
                      /\ (j % 2 = 1) <=> evs[j].ev = "call"
                      /\ (j % 2 = 0) <=> evs[j].ev \in {"return", "fail"}
                      /\ evs[j].ev = "return" =>
                            evs[j].name = CsvStepName(op, files[nth])
                      /\ evs[j].ev = "call" /\ op # "CreateTableFromCSV" =>
                            evs[j].name = CsvStepName(op, files[nth])
                      /\ evs[j].ev = "call" /\ op = "CreateTableFromCSV" =>
                            evs[j].name = files[nth]
                      /\ evs[j].ev = "fail" =>
                            j = Len(evs) /\ ~alive /\ exitCode = 1
            /\ Len(requests) = Cardinality(ends)
            /\ \A i \in 1..Len(requests) :
                  LET step == i - 1
                      nth == (step \div Len(round)) + 1
                      op == round[(step % Len(round)) + 1]
                  IN  /\ requests[i].kind = CsvRequestKind(op)
                      /\ requests[i].name = CsvStepName(op, files[nth])
            /\ \A i \in 1..idx :
                  LET tn == csvTableName(files[i])
                  IN  /\ ReturnsNamed("CreateTableFromCSV", tn) > 0 => tn \in tables
                      /\ workflows[WorkflowNameOf(tn)]
                            = ReturnsNamed("CreateWorkflow", WorkflowNameOf(tn))
                      /\ PagesNamed(AppNameOf(tn))
                            = ReturnsNamed("CreateApp", AppNameOf(tn))
            /\ (pc = "returned" /\ alive) =>
                  /\ idx = Len(files)
                  /\ Cardinality(EvIdx("return", "CreateApp")) = Len(files)

\* The first file went through; the second file's table was created and
\* its workflow failed: the run is over, with both tables, the first
\* file's workflow and app, and nothing asked about the second file's app.
C23_Witness ==
    /\ cmd = "scaffold" /\ handler_mode = "csv" /\ ~argv.noWorkflow
    /\ idx = 2 /\ ~alive /\ exitCode = 1 /\ exitCause = "CreateWorkflow"
    /\ tables = {csvTableName(argv.f[1]), csvTableName(argv.f[2])}
    /\ workflows[WorkflowNameOf(csvTableName(argv.f[1]))] = 1
    /\ workflows[WorkflowNameOf(csvTableName(argv.f[2]))] = 0
    /\ PagesNamed(AppNameOf(csvTableName(argv.f[1]))) = 1
    /\ PagesNamed(AppNameOf(csvTableName(argv.f[2]))) = 0
    /\ Len(requests) = 5

\* The first resource named "retool_db" in the order of the list.
FirstRetoolDB(resp) ==
    resp.resources[CHOOSE i \in RetoolDBsOf(resp) :
                       \A j \in RetoolDBsOf(resp) : i <= j]
Ambiguous == Resolving /\ Cardinality(RetoolDBsOf(inv.resources[1])) > 1

\* C24: several resources named "retool_db" are no failure.  The call
\* goes on with the first of them in list order: it reports nothing, asks
\* for that resource's grid and for no other, and when the grid comes it
\* persists the record it found merged with that resource's identifier and
\* the grid's fields; the call then returns with that record on the disk.
C24_FirstRetoolDBTaken ==
    Ambiguous =>
        LET first == FirstRetoolDB(inv.resources[1])
            before == getCredentials(inv.before)[1]
        IN  /\ outcome \in {"running", "returned", "exit1"}
            /\ retoolDBUuid = first.name
            /\ gets = <<Get("resources", ""), Get("grid", first.name)>>
            /\ \A i \in 1..Len(cout) : cout[i].stream = "stderr" /\ outcome = "exit1"
            /\ (cpc = "fetchDBCredentials.grid") =>
                  outcome = "running" /\ persists = <<>> /\ fs = inv.before
            /\ (cpc = "idle") =>
                  /\ inv.grid # <<>>
                  /\ IF inv.grid[1].status = "error"
                     THEN outcome = "exit1" /\ persists = <<>> /\ fs = inv.before
                     ELSE /\ persists
                              = <<fetchDBCredentials_merged(before, first.name,
                                                            inv.grid[1])>>
                          /\ persists[1].retoolDBUuid = first.name
                          /\ \A k \in DOMAIN before \ DerivedKeys :
                                persists[1][k] = before[k]
                          /\ outcome = "returned" =>
                                /\ SameReads(getCredentials(fs)[1], persists[1])
                                /\ getCredentials(fs)[1].retoolDBUuid = first.name
                          /\ outcome = "exit1" =>
                                /\ fs = inv.before
                                /\ Len(cout) = 1

\* Two resources named "retool_db", the one listed first not being the
\* one with the least identifier: the record on the disk names the first.
C24_Witness ==
    /\ Ambiguous /\ outcome = "returned" /\ cpc = "idle"
    /\ inv.resources[1].resources[1].name = "uuid-2"
    /\ inv.resources[1].resources[2].name = "uuid-1"
    /\ getCredentials(fs)[1].retoolDBUuid = "uuid-2"
    /\ getCredentials(fs)[1].hasConnectionString

====
